---- MODULE Spec2Model ----
(***************************************************************************)
(* A model of tools/scrape-hwdef.py: the hwdef include resolver, the       *)
(* directive processor and the post-processing passes of HwdefParser.      *)
(*                                                                         *)
(* Text is modelled character by character: a Python str is a sequence of  *)
(* one-character strings, so that strip, split, startswith and substring   *)
(* tests are computed the way the code computes them.                      *)
(***************************************************************************)
EXTENDS Integers, Sequences, FiniteSets, TLC

VARIABLES
    fs,             \* the files on disk: resolved path -> [lines, readable]
    hwdef_dir,      \* HwdefParser.hwdef_dir as given to the constructor
    board_ids,      \* HwdefParser.board_ids: symbolic name -> numeric ID
    chip_order,     \* the iteration order of the chip sets in this interpreter run
    include_cache,  \* HwdefParser._include_cache: str(filepath) -> lines
    read_count,     \* per file: how often read_text() returned its content
    pc,             \* position inside parse_board ("idle" between calls)
    call,           \* the resolve_lines call being entered, or NoCall
    stack,          \* the active resolve_lines frames, innermost last
    cold,           \* the running parse_board call began with an empty cache
    board,          \* parse_board's board
    lines,          \* parse_board's flattened lines
    li,             \* parse_board's position in lines
    undefs,         \* parse_board's undefs
    log,            \* what the parse_board calls on this parser instance returned
    fresh_log,      \* what parse_board calls that began with an empty cache returned
    batch           \* main's loop over all_folders: what is left, results, errors

env == <<fs, hwdef_dir, board_ids>>
hist == <<log, fresh_log>>
vars == <<fs, hwdef_dir, board_ids, chip_order, include_cache, read_count, pc, call,
          stack, cold, board, lines, li, undefs, log, fresh_log, batch>>

----------------------------------------------------------------------------
(* Bounds of the model *)

\* the longest string of digits int() converts: more raise ValueError
\* (sys.int_info.default_max_str_digits of CPython)
MaxStrDigits == 4300

\* the deepest stack of resolve_lines frames the model follows
MaxStack == 12

\* the include depth limit of resolve_lines
MaxIncludeDepth == 10

----------------------------------------------------------------------------
(* Python str operations *)

IsSpace(c) == c \in {" ", "\t"}

RECURSIVE LStrip(_)
LStrip(s) == IF s # <<>> /\ IsSpace(Head(s)) THEN LStrip(Tail(s)) ELSE s

RECURSIVE RStrip(_)
RStrip(s) ==
    IF s # <<>> /\ IsSpace(s[Len(s)]) THEN RStrip(SubSeq(s, 1, Len(s) - 1)) ELSE s

\* str.strip()
Strip(s) == RStrip(LStrip(s))

\* str.startswith(p)
StartsWith(s, p) == Len(s) >= Len(p) /\ SubSeq(s, 1, Len(p)) = p

\* str.endswith(p)
EndsWith(s, p) == Len(s) >= Len(p) /\ SubSeq(s, Len(s) - Len(p) + 1, Len(s)) = p

\* p in s
Contains(s, p) == \E i \in 1..(Len(s) - Len(p) + 1) : SubSeq(s, i, i + Len(p) - 1) = p

\* the tokens of s from position `from` on, one step per token
RECURSIVE SplitFrom(_, _)
SplitFrom(s, from) ==
    IF \A i \in from..Len(s) : IsSpace(s[i]) THEN <<>>
    ELSE LET b == CHOOSE i \in from..Len(s) : ~IsSpace(s[i]) /\ \A j \in from..(i - 1) : IsSpace(s[j])
             e == CHOOSE i \in (b + 1)..(Len(s) + 1) :
                     /\ i = Len(s) + 1 \/ IsSpace(s[i])
                     /\ \A j \in b..(i - 1) : ~IsSpace(s[j])
         IN  <<SubSeq(s, b, e - 1)>> \o SplitFrom(s, e)

\* str.split(): the tokens between runs of whitespace
Split(s) == SplitFrom(s, 1)

\* the index of the first whitespace character of s, or Len(s) + 1
FirstSpace(s) ==
    IF \E i \in 1..Len(s) : IsSpace(s[i])
    THEN CHOOSE i \in 1..Len(s) : IsSpace(s[i]) /\ \A j \in 1..(i - 1) : ~IsSpace(s[j])
    ELSE Len(s) + 1

\* str.split(None, 1): the first token and the rest of the string
Split1(s) ==
    LET t == LStrip(s)
        n == FirstSpace(t)
        rest == LStrip(SubSeq(t, n, Len(t)))
    IN  IF t = <<>> THEN <<>>
        ELSE IF rest = <<>> THEN <<SubSeq(t, 1, n - 1)>>
        ELSE <<SubSeq(t, 1, n - 1), rest>>

RECURSIVE SplitOnAcc(_, _, _, _)
SplitOnAcc(s, sep, cur, acc) ==
    IF s = <<>> THEN Append(acc, cur)
    ELSE IF Head(s) = sep THEN SplitOnAcc(Tail(s), sep, <<>>, Append(acc, cur))
    ELSE SplitOnAcc(Tail(s), sep, Append(cur, Head(s)), acc)

\* str.split(sep) for a one-character separator
SplitOn(s, sep) == SplitOnAcc(s, sep, <<>>, <<>>)

----------------------------------------------------------------------------
(* pathlib: a path is its sequence of components, the first one the root *)

\* the hwdef directory as the file system names it (Path.resolve())
RootAbs == <<"/", "r", "e", "p", "o", "/", "h", "w", "d", "e", "f">>
\* the same directory named relative to the working directory
RootRel == <<"r", "e", "p", "o", "/", "h", "w", "d", "e", "f">>
\* the root of an absolute include path, which lies outside the hwdef directory
RootOutside == <<"/">>

\* filepath.parent
Parent(p) == IF Len(p) > 1 THEN SubSeq(p, 1, Len(p) - 1) ELSE p

RECURSIVE Normalize(_, _)
Normalize(comps, acc) ==
    IF comps = <<>> THEN acc
    ELSE IF Head(comps) = <<".">> \/ Head(comps) = <<>> THEN Normalize(Tail(comps), acc)
    ELSE IF Head(comps) = <<".", ".">>
         THEN Normalize(Tail(comps), IF Len(acc) > 1 THEN SubSeq(acc, 1, Len(acc) - 1) ELSE acc)
         ELSE Normalize(Tail(comps), Append(acc, Head(comps)))

\* (dir / inc_path): an absolute inc_path replaces dir
JoinPath(dir, inc_path) ==
    IF StartsWith(inc_path, <<"/">>)
    THEN <<RootOutside>> \o SplitOn(inc_path, "/")
    ELSE dir \o SplitOn(inc_path, "/")

\* Path.resolve(): absolute root, no "." and ".." components
ResolvePath(p) ==
    Normalize(Tail(p), <<IF Head(p) = RootRel THEN RootAbs ELSE Head(p)>>)

\* Path.exists()
Exists(p) == ResolvePath(p) \in DOMAIN fs

----------------------------------------------------------------------------
(* main: the loop over the board folders *)

\* main's loop is not running: parse_board is called by hand
NoBatch ==
    [running |-> FALSE, todo |-> <<>>, folder |-> <<>>, results |-> <<>>, errors |-> <<>>,
     skipped_bl |-> 0, calls |-> <<>>]

\* except Exception as e: errors.append((folder.name, str(e)))
Caught(b, message) ==
    IF b.running
    THEN [b EXCEPT !.folder = <<>>, !.errors = Append(@, <<b.folder[1], message>>)]
    ELSE b

----------------------------------------------------------------------------
(* HwdefParser.resolve_lines *)

NoCall == [depth |-> -1]

\* a faulty limit that cuts one level early: depth >= 10
DepthExceededEarly(depth) == depth >= MaxIncludeDepth

\* a faulty resolver without a limit
DepthNeverExceeded(depth) == FALSE

\* depth > 10
DepthExceeded(depth) == depth > MaxIncludeDepth

\* cache_key = str(filepath)
CacheKey(filepath) == filepath

\* the path an include line names, resolved against the including file
IncludeFile(filepath, inc_path) == JoinPath(Parent(filepath), inc_path)

\* lines.extend(included) in the calling frame, or the value handed to parse_board
Deliver(stk, value) ==
    IF stk = <<>>
    THEN /\ lines' = value
         /\ stack' = stk
         /\ pc' = "header"
    ELSE /\ stack' = [stk EXCEPT ![Len(stk)].lines = @ \o value,
                                 ![Len(stk)].i = @ + 1]
         /\ pc' = "resolve"
         /\ UNCHANGED lines

Resolving == pc = "resolve"

\* if depth > 10: return []
ResolveDepthExceeded ==
    /\ Resolving /\ call # NoCall
    /\ DepthExceeded(call.depth)
    /\ call' = NoCall
    /\ Deliver(stack, <<>>)
    /\ UNCHANGED <<env, batch, hist, chip_order, include_cache, read_count, cold, board, li, undefs>>

\* if cache_key in self._include_cache: return self._include_cache[cache_key]
ResolveCacheHit ==
    /\ Resolving /\ call # NoCall
    /\ ~DepthExceeded(call.depth)
    /\ CacheKey(call.filepath) \in DOMAIN include_cache
    /\ call' = NoCall
    /\ Deliver(stack, include_cache[CacheKey(call.filepath)])
    /\ UNCHANGED <<env, batch, hist, chip_order, include_cache, read_count, cold, board, li, undefs>>

\* a faulty resolver that caches the empty result of a failed call
CacheFailureAsEmpty(cache, key) == (key :> <<>>) @@ cache

\* a failed resolve_lines call returns [] before the cache is written
CacheAfterFailure(cache, key) == cache

\* if not filepath.exists(): return []
ResolveFileNotFound ==
    /\ Resolving /\ call # NoCall
    /\ ~DepthExceeded(call.depth)
    /\ CacheKey(call.filepath) \notin DOMAIN include_cache
    /\ ~Exists(call.filepath)
    /\ call' = NoCall
    /\ Deliver(stack, <<>>)
    /\ include_cache' = CacheAfterFailure(include_cache, CacheKey(call.filepath))
    /\ UNCHANGED <<env, batch, hist, chip_order, read_count, cold, board, li, undefs>>

\* read_text() raises: return []
ResolveReadError ==
    /\ Resolving /\ call # NoCall
    /\ ~DepthExceeded(call.depth)
    /\ CacheKey(call.filepath) \notin DOMAIN include_cache
    /\ Exists(call.filepath)
    /\ ~fs[ResolvePath(call.filepath)].readable
    /\ call' = NoCall
    /\ Deliver(stack, <<>>)
    /\ include_cache' = CacheAfterFailure(include_cache, CacheKey(call.filepath))
    /\ UNCHANGED <<env, batch, hist, chip_order, read_count, cold, board, li, undefs>>

\* raw = filepath.read_text(); lines = []; the loop over raw.splitlines() begins
ResolveReadFile ==
    /\ Resolving /\ call # NoCall
    /\ ~DepthExceeded(call.depth)
    /\ CacheKey(call.filepath) \notin DOMAIN include_cache
    /\ Exists(call.filepath)
    /\ fs[ResolvePath(call.filepath)].readable
    /\ Len(stack) < MaxStack
    /\ stack' = Append(stack, [filepath |-> call.filepath, depth |-> call.depth,
                               raw |-> fs[ResolvePath(call.filepath)].lines,
                               i |-> 1, lines |-> <<>>])
    /\ read_count' = [read_count EXCEPT ![ResolvePath(call.filepath)] = @ + 1]
    /\ call' = NoCall
    /\ UNCHANGED <<env, batch, hist, chip_order, include_cache, pc, cold, board, lines, li, undefs>>

\* the frame whose loop is running
Top == stack[Len(stack)]
InLoop == Resolving /\ call = NoCall /\ stack # <<>> /\ Top.i <= Len(Top.raw)
Stripped == Strip(Top.raw[Top.i])
IsBlankOrComment(s) == s = <<>> \/ StartsWith(s, <<"#">>)
\* an include line read as the word include followed by a space
IsIncludeWithPath(s) == StartsWith(s, <<"i", "n", "c", "l", "u", "d", "e", " ">>)
IsIncludeLine(s) == StartsWith(s, <<"i", "n", "c", "l", "u", "d", "e">>)

\* the character U+0000, which a TLA+ string cannot hold, by its name
Nul == "NUL"

\* Path.resolve() raises ValueError (embedded null byte) on such a path
HasNul(inc_path) == \E i \in 1..Len(inc_path) : inc_path[i] = Nul

\* str(e) of that ValueError
EmbeddedNull == <<"e", "m", "b", "e", "d", "d", "e", "d", " ", "n", "u", "l", "l", " ", "b", "y", "t", "e">>

\* if not stripped or stripped.startswith('#'): lines.append(stripped); continue
ResolveKeepBlankOrComment ==
    /\ InLoop
    /\ IsBlankOrComment(Stripped)
    /\ stack' = [stack EXCEPT ![Len(stack)].lines = Append(@, Stripped),
                              ![Len(stack)].i = @ + 1]
    /\ UNCHANGED <<env, batch, hist, chip_order, include_cache, read_count, pc, call, cold, board,
                   lines, li, undefs>>

\* if stripped.startswith('include'): a path follows, so resolve_lines is called
ResolveInclude ==
    /\ InLoop
    /\ \E stripped \in {Stripped} :
          /\ ~IsBlankOrComment(stripped)
          /\ IsIncludeLine(stripped)
          /\ \E parts \in {Split1(stripped)} :
                /\ Len(parts) = 2
                /\ \E inc_path \in {Strip(parts[2])} :
                   /\ ~HasNul(inc_path)
                   /\ \E inc_file \in {IncludeFile(Top.filepath, inc_path)} :
                         call' = [filepath |-> ResolvePath(inc_file), depth |-> Top.depth + 1]
    /\ UNCHANGED <<env, batch, hist, chip_order, include_cache, read_count, pc, stack, cold, board,
                   lines, li, undefs>>

\* .resolve() raises on the include path: the exception leaves every running
\* resolve_lines call and parse_board; main's loop catches it, records the
\* folder's name with the message and goes on to the next folder; a caller
\* other than main's loop is ended by it
ResolveIncludeRaises ==
    /\ InLoop
    /\ \E stripped \in {Stripped} :
          /\ ~IsBlankOrComment(stripped)
          /\ IsIncludeLine(stripped)
          /\ \E parts \in {Split1(stripped)} :
                /\ Len(parts) = 2
                /\ HasNul(Strip(parts[2]))
    /\ stack' = <<>>
    /\ pc' = IF batch.running THEN "idle" ELSE "raised"
    /\ batch' = Caught(batch, EmbeddedNull)
    /\ UNCHANGED <<env, hist, chip_order, include_cache, read_count, call, cold, board,
                   lines, li, undefs>>

\* if stripped.startswith('include'): no path follows, the line is dropped
ResolveIncludeNoPath ==
    /\ InLoop
    /\ \E stripped \in {Stripped} :
          /\ ~IsBlankOrComment(stripped)
          /\ IsIncludeLine(stripped)
          /\ \E parts \in {Split1(stripped)} : Len(parts) # 2
    /\ stack' = [stack EXCEPT ![Len(stack)].i = @ + 1]
    /\ UNCHANGED <<env, batch, hist, chip_order, include_cache, read_count, pc, call, cold, board,
                   lines, li, undefs>>

\* lines.append(stripped)
ResolveKeepLine ==
    /\ InLoop
    /\ ~IsBlankOrComment(Stripped)
    /\ ~IsIncludeLine(Stripped)
    /\ stack' = [stack EXCEPT ![Len(stack)].lines = Append(@, Stripped),
                              ![Len(stack)].i = @ + 1]
    /\ UNCHANGED <<env, batch, hist, chip_order, include_cache, read_count, pc, call, cold, board,
                   lines, li, undefs>>

\* a faulty store that keeps the entry a key already has (dict.setdefault)
CacheStoreIfAbsent(cache, key, value) == cache @@ (key :> value)

\* self._include_cache[cache_key] = lines
CacheStore(cache, key, value) == (key :> value) @@ cache

\* self._include_cache[cache_key] = lines; return lines
ResolveReturn ==
    /\ Resolving /\ call = NoCall /\ stack # <<>> /\ Top.i > Len(Top.raw)
    /\ include_cache' = CacheStore(include_cache, CacheKey(Top.filepath), Top.lines)
    /\ Deliver(SubSeq(stack, 1, Len(stack) - 1), Top.lines)
    /\ UNCHANGED <<env, batch, hist, chip_order, call, read_count, cold, board, li, undefs>>

----------------------------------------------------------------------------
(* Characters, numbers and the regular expressions of the parser *)

\* None and a present value of an Optional field
None == <<>>
Some(v) == <<v>>

\* the printable ASCII characters in code-point order, from the space on (the
\* grave accent, which no hwdef file uses, is a placeholder that holds its place)
Ascii ==
    <<" ", "!", "\"", "#", "$", "%", "&", "'", "(", ")", "*", "+", ",", "-", ".", "/", "0", "1", "2", "3", "4", "5", "6", "7", "8", "9", ":", ";", "<", "=", ">", "?">> \o <<"@">> \o <<"A", "B", "C", "D", "E", "F", "G", "H", "I", "J", "K", "L", "M", "N", "O", "P", "Q", "R", "S", "T", "U", "V", "W", "X", "Y", "Z", "[", "\\", "]", "^", "_">>
    \o <<"(grave accent)">> \o <<"a", "b", "c", "d", "e", "f", "g", "h", "i", "j", "k", "l", "m", "n", "o", "p", "q", "r", "s", "t", "u", "v", "w", "x", "y", "z", "{", "|", "}", "~">>

\* ord(c), for the characters of Ascii (the tab sorts before them all)
Ord(c) == IF \E i \in 1..Len(Ascii) : Ascii[i] = c
          THEN 31 + (CHOOSE i \in 1..Len(Ascii) : Ascii[i] = c)
          ELSE 9

IsDigit(c) == Ord(c) >= 48 /\ Ord(c) <= 57
DigitVal(c) == Ord(c) - 48
IsUpper(c) == Ord(c) >= 65 /\ Ord(c) <= 90
IsLower(c) == Ord(c) >= 97 /\ Ord(c) <= 122

\* str.lower() and str.upper()
Lower(s) == [i \in 1..Len(s) |-> IF IsUpper(s[i]) THEN Ascii[Ord(s[i]) + 32 - 31] ELSE s[i]]
Upper(s) == [i \in 1..Len(s) |-> IF IsLower(s[i]) THEN Ascii[Ord(s[i]) - 32 - 31] ELSE s[i]]

\* a < b for str: lexicographic by code point
RECURSIVE StrLess(_, _)
StrLess(a, b) ==
    IF b = <<>> THEN FALSE
    ELSE IF a = <<>> THEN TRUE
    ELSE IF Head(a) = Head(b) THEN StrLess(Tail(a), Tail(b))
    ELSE Ord(Head(a)) < Ord(Head(b))

\* ' '.join(parts)
RECURSIVE JoinSpace(_)
JoinSpace(parts) ==
    IF parts = <<>> THEN <<>>
    ELSE IF Len(parts) = 1 THEN parts[1]
    ELSE parts[1] \o <<" ">> \o JoinSpace(Tail(parts))

\* the value of a string of decimal digits
RECURSIVE DigitsValue(_, _)
DigitsValue(s, acc) ==
    IF s = <<>> THEN acc ELSE DigitsValue(Tail(s), 10 * acc + DigitVal(Head(s)))

\* digits, single underscores allowed between them
IsDigitRun(s) ==
    /\ s # <<>>
    /\ IsDigit(s[1]) /\ IsDigit(s[Len(s)])
    /\ \A i \in 1..Len(s) : IsDigit(s[i]) \/ (s[i] = "_" /\ IsDigit(s[i + 1]))

DropUnderscores(s) == SelectSeq(s, LAMBDA c : c # "_")
HasSign(s) == s # <<>> /\ s[1] \in {"+", "-"}
Unsigned(s) == IF HasSign(s) THEN Tail(s) ELSE s

\* int(s) succeeds (no ValueError)
IsIntLiteral(s) ==
    /\ IsDigitRun(Unsigned(Strip(s)))
    /\ Len(DropUnderscores(Unsigned(Strip(s)))) <= MaxStrDigits

\* int(s)
IntValue(s) ==
    LET t == Strip(s)
        v == DigitsValue(DropUnderscores(Unsigned(t)), 0)
    IN  IF HasSign(t) /\ t[1] = "-" THEN 0 - v ELSE v

\* the text before and after the first occurrence of character c
Before(s, c) ==
    IF \E i \in 1..Len(s) : s[i] = c
    THEN SubSeq(s, 1, (CHOOSE i \in 1..Len(s) : s[i] = c /\ \A j \in 1..(i - 1) : s[j] # c) - 1)
    ELSE s
After(s, c) ==
    IF \E i \in 1..Len(s) : s[i] = c
    THEN SubSeq(s, (CHOOSE i \in 1..Len(s) : s[i] = c /\ \A j \in 1..(i - 1) : s[j] # c) + 1, Len(s))
    ELSE <<>>
HasChar(s, c) == \E i \in 1..Len(s) : s[i] = c

\* a decimal mantissa: digits, digits with a fraction, or a bare fraction
IsMantissa(s) ==
    IF HasChar(s, ".")
    THEN /\ Before(s, ".") = <<>> \/ IsDigitRun(Before(s, "."))
         /\ After(s, ".") = <<>> \/ IsDigitRun(After(s, "."))
         /\ Before(s, ".") # <<>> \/ After(s, ".") # <<>>
    ELSE IsDigitRun(s)

\* float(s) succeeds (no ValueError)
IsFloatLiteral(s) ==
    LET t == Lower(Unsigned(Strip(s)))
    IN  \/ t \in {<<"i", "n", "f">>, <<"i", "n", "f", "i", "n", "i", "t", "y">>, <<"n", "a", "n">>}
        \/ IF HasChar(t, "e")
           THEN IsMantissa(Before(t, "e")) /\ IsDigitRun(Unsigned(After(t, "e")))
           ELSE IsMantissa(t)

\* the length of the run of digits of s that starts at position i
DigitRun(s, i) ==
    (CHOOSE e \in i..(Len(s) + 1) :
        /\ e = Len(s) + 1 \/ ~IsDigit(s[e])
        /\ \A j \in i..(e - 1) : IsDigit(s[j])) - i

\* re.search(prefix (\d+) suffix, s) matches at position i
MatchesAt(s, prefix, suffix, i) ==
    LET d == i + Len(prefix)
        n == DigitRun(s, d)
    IN  /\ SubSeq(s, i, d - 1) = prefix
        /\ n >= 1
        /\ SubSeq(s, d + n, d + n + Len(suffix) - 1) = suffix

\* re.search(prefix (\d+) suffix, s): group(1) of the leftmost match, or None
SearchNumber(s, prefix, suffix) ==
    LET hits == {i \in 1..Len(s) : i + Len(prefix) - 1 <= Len(s) /\ MatchesAt(s, prefix, suffix, i)}
    IN  IF hits = {} THEN None
        ELSE LET i == CHOOSE h \in hits : \A k \in hits : h <= k
                 d == i + Len(prefix)
             IN  Some(SubSeq(s, d, d + DigitRun(s, d) - 1))

\* re.search(prefix (\d), s): the one digit after the leftmost prefix that has one
SearchDigit(s, prefix) ==
    LET hits == {i \in 1..Len(s) : /\ i + Len(prefix) <= Len(s)
                                   /\ SubSeq(s, i, i + Len(prefix) - 1) = prefix
                                   /\ IsDigit(s[i + Len(prefix)])}
    IN  IF hits = {} THEN None
        ELSE Some(<<s[(CHOOSE h \in hits : \A k \in hits : h <= k) + Len(prefix)]>>)

\* max(a, b)
Max(a, b) == IF a >= b THEN a ELSE b

----------------------------------------------------------------------------
(* The data classes *)

\* PRIORITY_BOARDS
PRIORITY_BOARDS == {
    <<"f", "m", "u", "v", "3">>, <<"f", "m", "u", "v", "5">>, <<"f", "m", "u", "v", "6", "x">>, <<"f", "m", "u", "v", "6", "c">>,
    <<"C", "u", "b", "e", "B", "l", "a", "c", "k">>, <<"C", "u", "b", "e", "O", "r", "a", "n", "g", "e">>, <<"C", "u", "b", "e", "O", "r", "a", "n", "g", "e", "P", "l", "u", "s">>,
    <<"P", "i", "x", "h", "a", "w", "k", "1">>, <<"P", "i", "x", "h", "a", "w", "k", "6", "X">>, <<"P", "i", "x", "h", "a", "w", "k", "6", "C">>,
    <<"M", "a", "t", "e", "k", "F", "4", "0", "5", "-", "W", "i", "n", "g">>, <<"M", "a", "t", "e", "k", "H", "7", "4", "3">>, <<"M", "a", "t", "e", "k", "F", "4", "0", "5", "-", "T", "E">>,
    <<"M", "a", "t", "e", "k", "H", "7", "4", "3", "-", "M", "i", "n", "i">>, <<"M", "a", "t", "e", "k", "H", "7", "4", "3", "-", "S", "l", "i", "m">>, <<"M", "a", "t", "e", "k", "F", "4", "0", "5", "-", "S", "T", "D">>, <<"M", "a", "t", "e", "k", "F", "7", "6", "5", "-", "W", "i", "n", "g">>,
    <<"K", "a", "k", "u", "t", "e", "F", "4">>, <<"K", "a", "k", "u", "t", "e", "F", "7">>, <<"K", "a", "k", "u", "t", "e", "H", "7">>, <<"K", "a", "k", "u", "t", "e", "H", "7", "M", "i", "n", "i">>, <<"K", "a", "k", "u", "t", "e", "H", "7", "-", "W", "i", "n", "g">>,
    <<"S", "p", "e", "e", "d", "y", "B", "e", "e", "F", "4", "0", "5", "v", "3">>, <<"S", "p", "e", "e", "d", "y", "B", "e", "e", "F", "4", "0", "5", "v", "4">>, <<"S", "p", "e", "e", "d", "y", "B", "e", "e", "F", "4", "0", "5", "W", "i", "n", "g">>, <<"S", "p", "e", "e", "d", "y", "B", "e", "e", "F", "4", "0", "5", "M", "i", "n", "i">>,
    <<"J", "H", "E", "M", "C", "U", "-", "G", "S", "F", "4", "0", "5", "A">>, <<"J", "H", "E", "M", "C", "U", "-", "G", "F", "1", "6", "-", "F", "4", "0", "5">>,
    <<"F", "o", "x", "e", "e", "r", "F", "7", "4", "5", "V", "2">>, <<"F", "o", "x", "e", "e", "r", "R", "e", "a", "p", "e", "r", "F", "7", "4", "5", "A", "I", "O">>,
    <<"m", "R", "o", "C", "o", "n", "t", "r", "o", "l", "Z", "e", "r", "o", "H", "7">>,
    <<"B", "l", "i", "t", "z", "F", "7", "4", "5", "A", "I", "O">>,
    <<"o", "m", "n", "i", "b", "u", "s", "f", "4", "p", "r", "o">>,
    <<"M", "a", "m", "b", "a", "F", "4", "0", "5", "v", "2">>, <<"M", "a", "m", "b", "a", "H", "7", "4", "3", "v", "4">>,
    <<"F", "l", "y", "w", "o", "o", "F", "7", "4", "5">>, <<"F", "l", "y", "w", "o", "o", "F", "4", "0", "5", "S", "-", "A", "I", "O">>,
    <<"B", "e", "t", "a", "F", "P", "V", "-", "F", "4", "0", "5">>, <<"B", "e", "t", "a", "F", "P", "V", "-", "F", "7", "4", "5">>,
    <<"N", "x", "t", "P", "X", "4", "v", "2">>,
    <<"P", "i", "x", "h", "a", "w", "k", "4">>,
    <<"m", "R", "o", "P", "i", "x", "r", "a", "c", "e", "r", "P", "r", "o">> }

\* UartDef(serial_index=i, uart_name=..., is_usb=..., is_empty=...)
UartDef(i, uart_name) ==
    [serial_index |-> i, uart_name |-> uart_name,
     has_tx |-> TRUE, has_rx |-> TRUE, rx_dma |-> FALSE, tx_dma |-> FALSE,
     is_usb |-> StartsWith(uart_name, <<"O", "T", "G">>) \/ uart_name = <<"U", "S", "B">>,
     is_empty |-> uart_name = <<"E", "M", "P", "T", "Y">>]

\* BatteryMonitor()
BatteryMonitor == [volt_pin |-> None, curr_pin |-> None, volt_mult |-> None, amp_per_volt |-> None]

\* BuiltinSensors()
BuiltinSensors ==
    [imu |-> <<>>, barometer |-> <<>>, compass |-> <<>>, osd |-> None, flash |-> None,
     sdcard |-> FALSE]

\* RcInput()
RcInput == [input_type |-> <<>>, serial_index |-> None, pin |-> <<>>, timer |-> <<>>]

\* the empty dict
EmptyDict == [k \in {} |-> <<>>]

\* BoardData(), then the fields parse_board sets before it reads the file
BoardData(name) ==
    [folder_name |-> name, board_name |-> name,
     apj_board_id |-> None, apj_board_id_name |-> <<>>,
     mcu_class |-> <<>>, mcu_type |-> <<>>, flash_kb |-> 0, oscillator_hz |-> 0,
     serial_order |-> <<>>, uarts |-> <<>>, i2c_order |-> <<>>,
     pwm_outputs |-> <<>>, output_groups |-> <<>>,
     sensors |-> BuiltinSensors, spi_devices |-> <<>>,
     battery |-> BatteryMonitor, rc_input |-> RcInput,
     has_buzzer |-> FALSE, buzzer_pin |-> <<>>,
     has_led_strip |-> FALSE, led_pin |-> <<>>, has_safety_switch |-> FALSE,
     can_interfaces |-> 0, dma_lines |-> <<>>, includes |-> <<>>,
     defines |-> EmptyDict, header_comments |-> <<>>,
     is_priority |-> name \in PRIORITY_BOARDS,
     is_bootloader |-> EndsWith(name, <<"-", "b", "l">>),
     default_params |-> EmptyDict]

----------------------------------------------------------------------------
(* HwdefParser._process_line: one branch per arm of the if/elif chain *)

\* keyword == 'APJ_BOARD_ID'
SetBoardId(b, parts) ==
    IF Len(parts) >= 2
    THEN [b EXCEPT !.apj_board_id_name = parts[2],
                   !.apj_board_id =
                       IF IsIntLiteral(parts[2]) THEN Some(IntValue(parts[2]))
                       ELSE IF parts[2] \in DOMAIN board_ids THEN Some(board_ids[parts[2]])
                       ELSE @]
    ELSE b

\* a faulty SERIAL_ORDER handler that adds to the channels of an earlier line
SetSerialOrderAppending(b, parts) ==
    [b EXCEPT !.serial_order = Tail(parts),
              !.uarts = @ \o [i \in 1..(Len(parts) - 1) |-> UartDef(i - 1, parts[i + 1])]]

\* keyword == 'SERIAL_ORDER'
SetSerialOrder(b, parts) ==
    [b EXCEPT !.serial_order = Tail(parts),
              !.uarts = [i \in 1..(Len(parts) - 1) |-> UartDef(i - 1, parts[i + 1])]]

\* complementary: the last '_' segment of the timer channel ends in N
IsComplementary(timer_ch) ==
    LET last == SplitOn(timer_ch, "_")[Len(SplitOn(timer_ch, "_"))]
    IN  HasChar(last, "N") /\ last[Len(last)] = "N"

\* OutputPin(...) for a line with a PWM(n) marker
OutputPin(parts, line) ==
    LET gpio == SearchNumber(line, <<"G", "P", "I", "O", "(">>, <<")">>)
    IN  [number |-> IntValue(SearchNumber(line, <<"P", "W", "M", "(">>, <<")">>)[1]),
         timer |-> parts[3], timer_channel |-> parts[2],
         gpio |-> IF gpio = None THEN None ELSE Some(IntValue(gpio[1])),
         complementary |-> IsComplementary(parts[2]),
         bidir |-> Contains(line, <<"B", "I", "D", "I", "R">>),
         pin |-> parts[1]]

\* len(parts) >= 4 and 'PWM(' in line
\* what _process_line leaves in place of a record when it raises ValueError
ValueError == [raised |-> "ValueError"]

\* str(e) of the ValueError of int(), up to the number of digits
ExceedsLimit == <<"E", "x", "c", "e", "e", "d", "s", " ", "t", "h", "e", " ", "l", "i", "m", "i", "t", " ", "(", "4", "3", "0", "0", " ", "d", "i", "g", "i", "t", "s", ")", " ", "f", "o", "r", " ", "i", "n", "t", "e", "g", "e", "r", " ", "s", "t", "r", "i", "n", "g", " ", "c", "o", "n", "v", "e", "r", "s", "i", "o", "n">>

\* int(digits) raises ValueError: more than 4300 digits
TooLong(digits) == Len(digits) > MaxStrDigits

\* int(pwm_match.group(1)) or int(gpio_match.group(1)) raises
PwmOutputRaises(line) ==
    \/ TooLong(SearchNumber(line, <<"P", "W", "M", "(">>, <<")">>)[1])
    \/ /\ SearchNumber(line, <<"G", "P", "I", "O", "(">>, <<")">>) # None
       /\ TooLong(SearchNumber(line, <<"G", "P", "I", "O", "(">>, <<")">>)[1])

AddPwmOutput(b, parts, line) ==
    IF SearchNumber(line, <<"P", "W", "M", "(">>, <<")">>) # None
    THEN IF PwmOutputRaises(line) THEN ValueError
         ELSE [b EXCEPT !.pwm_outputs = Append(@, OutputPin(parts, line))]
    ELSE b

\* keyword == 'SPIDEV' and len(parts) >= 4
AddSpiDevice(b, parts) ==
    [b EXCEPT !.spi_devices =
        Append(@, [name |-> Lower(parts[2]), bus |-> parts[3],
                   devid |-> IF Len(parts) > 3 THEN parts[4] ELSE <<>>,
                   cs |-> IF Len(parts) > 4 THEN parts[5] ELSE <<>>])]

\* str.strip('"')
RECURSIVE StripQuotes(_)
StripQuotes(s) ==
    IF s # <<>> /\ Head(s) = "\"" THEN StripQuotes(Tail(s))
    ELSE IF s # <<>> /\ s[Len(s)] = "\"" THEN StripQuotes(SubSeq(s, 1, Len(s) - 1))
    ELSE s

\* the battery fields of a define
DefineBattery(bat, name, val) ==
    IF name = <<"H", "A", "L", "_", "B", "A", "T", "T", "_", "V", "O", "L", "T", "_", "P", "I", "N">>
    THEN (IF IsIntLiteral(val) THEN [bat EXCEPT !.volt_pin = Some(IntValue(val))] ELSE bat)
    ELSE IF name = <<"H", "A", "L", "_", "B", "A", "T", "T", "_", "C", "U", "R", "R", "_", "P", "I", "N">>
    THEN (IF IsIntLiteral(val) THEN [bat EXCEPT !.curr_pin = Some(IntValue(val))] ELSE bat)
    ELSE IF name = <<"H", "A", "L", "_", "B", "A", "T", "T", "_", "V", "O", "L", "T", "_", "S", "C", "A", "L", "E">>
    THEN (IF IsFloatLiteral(val) THEN [bat EXCEPT !.volt_mult = Some(Strip(val))] ELSE bat)
    ELSE IF name = <<"H", "A", "L", "_", "B", "A", "T", "T", "_", "C", "U", "R", "R", "_", "S", "C", "A", "L", "E">>
    THEN (IF IsFloatLiteral(val) THEN [bat EXCEPT !.amp_per_volt = Some(Strip(val))] ELSE bat)
    ELSE bat

\* the sensor fields of a define
DefineSensors(sens, name, val) ==
    [sens EXCEPT
        !.osd = IF name = <<"H", "A", "L", "_", "O", "S", "D", "_", "T", "Y", "P", "E", "_", "D", "E", "F", "A", "U", "L", "T">> /\ Strip(val) = <<"1">>
                THEN Some(<<"M", "A", "X", "7", "4", "5", "6">>) ELSE @,
        !.sdcard = IF name = <<"H", "A", "L", "_", "O", "S", "_", "F", "A", "T", "F", "S", "_", "I", "O">> /\ Strip(val) = <<"1">> THEN TRUE ELSE @]

\* keyword == 'define' and len(parts) >= 3
ApplyDefine(b, parts) ==
    LET define_name == parts[2]
        define_val == JoinSpace(SubSeq(parts, 3, Len(parts)))
    IN  [b EXCEPT
            !.defines = (define_name :> define_val) @@ @,
            !.has_buzzer = IF define_name = <<"H", "A", "L", "_", "B", "U", "Z", "Z", "E", "R", "_", "P", "I", "N">> THEN TRUE ELSE @,
            !.battery = DefineBattery(@, define_name, define_val),
            !.has_safety_switch =
                IF define_name = <<"H", "A", "L", "_", "H", "A", "V", "E", "_", "S", "A", "F", "E", "T", "Y", "_", "S", "W", "I", "T", "C", "H">> /\ Strip(define_val) = <<"1">>
                THEN TRUE ELSE @,
            !.can_interfaces =
                IF define_name = <<"H", "A", "L", "_", "N", "U", "M", "_", "C", "A", "N", "_", "I", "F", "A", "C", "E", "S">> /\ IsIntLiteral(define_val)
                THEN IntValue(define_val) ELSE @,
            !.board_name =
                IF define_name = <<"C", "H", "I", "B", "I", "O", "S", "_", "S", "H", "O", "R", "T", "_", "B", "O", "A", "R", "D", "_", "N", "A", "M", "E">> THEN StripQuotes(define_val) ELSE @,
            !.has_led_strip =
                IF define_name \in {<<"H", "A", "L", "_", "L", "E", "D", "_", "S", "T", "R", "I", "P", "_", "P", "I", "N">>, <<"A", "P", "_", "N", "O", "T", "I", "F", "Y", "_", "N", "E", "O", "P", "I", "X", "E", "L", "_", "P", "I", "N">>}
                THEN TRUE ELSE @,
            !.sensors = DefineSensors(@, define_name, define_val)]

\* keyword.startswith('CAN') and '_RX' in keyword or '_TX' in keyword
IsCanKeyword(keyword) ==
    \/ StartsWith(keyword, <<"C", "A", "N">>) /\ Contains(keyword, <<"_", "R", "X">>)
    \/ Contains(keyword, <<"_", "T", "X">>)

\* the CAN pin arm without a look at the undef set
CountCanDespiteUndef(b, keyword, undef_set) ==
    LET can_num == SearchDigit(keyword, <<"C", "A", "N">>)
    IN  IF can_num # None
        THEN [b EXCEPT !.can_interfaces = Max(@, IntValue(can_num[1]))]
        ELSE b

\* the CAN pin arm
CountCan(b, keyword, undef_set) ==
    LET can_num == SearchDigit(keyword, <<"C", "A", "N">>)
    IN  IF keyword \notin undef_set /\ can_num # None
        THEN [b EXCEPT !.can_interfaces = Max(@, IntValue(can_num[1]))]
        ELSE b

\* the LED pin arm
SetLedStrip(b, parts, line) ==
    IF Contains(line, <<"N", "E", "O", "P", "I", "X", "E", "L">>) \/ Contains(line, <<"L", "E", "D", "_", "S", "T", "R", "I", "P">>)
    THEN [b EXCEPT !.has_led_strip = TRUE, !.led_pin = parts[1]]
    ELSE b

\* _process_line(board, parts, line, undefs): the board after the line
ProcessLine(b, parts, line, undef_set) ==
    LET keyword == parts[1]
        n == Len(parts)
    IN  IF keyword = <<"M", "C", "U">> /\ n >= 3
        THEN [b EXCEPT !.mcu_class = parts[2], !.mcu_type = parts[3]]
        ELSE IF keyword = <<"A", "P", "J", "_", "B", "O", "A", "R", "D", "_", "I", "D">> THEN SetBoardId(b, parts)
        ELSE IF keyword = <<"F", "L", "A", "S", "H", "_", "S", "I", "Z", "E", "_", "K", "B">> /\ n >= 2
        THEN (IF IsIntLiteral(parts[2]) THEN [b EXCEPT !.flash_kb = IntValue(parts[2])] ELSE b)
        ELSE IF keyword = <<"O", "S", "C", "I", "L", "L", "A", "T", "O", "R", "_", "H", "Z">> /\ n >= 2
        THEN (IF IsIntLiteral(parts[2]) THEN [b EXCEPT !.oscillator_hz = IntValue(parts[2])] ELSE b)
        ELSE IF keyword = <<"S", "E", "R", "I", "A", "L", "_", "O", "R", "D", "E", "R">> THEN SetSerialOrder(b, parts)
        ELSE IF keyword = <<"I", "2", "C", "_", "O", "R", "D", "E", "R">> THEN [b EXCEPT !.i2c_order = Tail(parts)]
        ELSE IF n >= 4 /\ Contains(line, <<"P", "W", "M", "(">>) THEN AddPwmOutput(b, parts, line)
        ELSE IF keyword = <<"S", "P", "I", "D", "E", "V">> /\ n >= 4 THEN AddSpiDevice(b, parts)
        ELSE IF Contains(keyword, <<"B", "U", "Z", "Z", "E", "R">>) /\ Contains(line, <<"O", "U", "T", "P", "U", "T">>)
        THEN [b EXCEPT !.has_buzzer = TRUE, !.buzzer_pin = parts[1]]
        ELSE IF keyword = <<"d", "e", "f", "i", "n", "e">> /\ n >= 3 THEN ApplyDefine(b, parts)
        ELSE IF keyword \in {<<"S", "D", "I", "O">>, <<"S", "D", "M", "M", "C">>} THEN [b EXCEPT !.sensors.sdcard = TRUE]
        ELSE IF IsCanKeyword(keyword) THEN CountCan(b, keyword, undef_set)
        ELSE IF keyword \in {<<"D", "M", "A", "_", "P", "R", "I", "O", "R", "I", "T", "Y">>, <<"D", "M", "A", "_", "N", "O", "S", "H", "A", "R", "E">>}
        THEN [b EXCEPT !.dma_lines = Append(@, line)]
        ELSE IF Contains(keyword, <<"L", "E", "D">>) /\ Contains(line, <<"T", "I", "M">>) /\ ~Contains(line, <<"P", "W", "M">>)
        THEN SetLedStrip(b, parts, line)
        ELSE IF keyword = <<"i", "n", "c", "l", "u", "d", "e">>
        THEN [b EXCEPT !.includes = Append(@, IF n > 1 THEN parts[2] ELSE <<>>)]
        ELSE IF Contains(line, <<"B", "A", "T", "_", "V", "O", "L", "T">>) \/ Contains(line, <<"B", "A", "T", "T", "_", "V", "O", "L", "T", "A", "G", "E">>) THEN b
        ELSE IF Contains(line, <<"B", "A", "T", "_", "C", "U", "R", "R">>) \/ Contains(line, <<"B", "A", "T", "T", "_", "C", "U", "R", "R", "E", "N", "T">>) THEN b
        ELSE IF n >= 2 /\ (Contains(parts[1], <<"N", "E", "O", "P", "I", "X", "E", "L">>) \/ Contains(Lower(line), <<"n", "e", "o", "p", "i", "x", "e", "l">>))
        THEN [b EXCEPT !.has_led_strip = TRUE, !.led_pin = parts[1]]
        ELSE b

----------------------------------------------------------------------------
(* HwdefParser._compute_output_groups *)

\* sorted(keys): ascending by str comparison
RECURSIVE SortedStrings(_)
SortedStrings(S) ==
    IF S = {} THEN <<>>
    ELSE LET m == CHOOSE x \in S : \A y \in S : x = y \/ StrLess(x, y)
         IN  <<m>> \o SortedStrings(S \ {m})

\* insert pin o behind the pins whose number is not greater (the sort is stable)
RECURSIVE InsertByNumber(_, _)
InsertByNumber(sorted, o) ==
    IF sorted = <<>> THEN <<o>>
    ELSE IF sorted[Len(sorted)].number <= o.number THEN Append(sorted, o)
    ELSE Append(InsertByNumber(SubSeq(sorted, 1, Len(sorted) - 1), o), sorted[Len(sorted)])

\* outputs.sort(key=lambda o: o.number)
RECURSIVE SortByNumber(_)
SortByNumber(pins) ==
    IF pins = <<>> THEN <<>>
    ELSE InsertByNumber(SortByNumber(SubSeq(pins, 1, Len(pins) - 1)), pins[Len(pins)])

\* a faulty limit that lets timer 9 do DShot
CapabilitiesThrough9(timer, outputs) ==
    LET timer_num_match == SearchNumber(timer, <<"T", "I", "M">>, <<>>)
    IN  <<"PWM">>
        \o (IF timer_num_match # None /\ IntValue(timer_num_match[1]) <= 9
            THEN <<"DShot">> \o (IF \E i \in 1..Len(outputs) : outputs[i].bidir
                                 THEN <<"BDShot">> ELSE <<>>)
            ELSE <<>>)

\* caps of one group
Capabilities(timer, outputs) ==
    LET timer_num_match == SearchNumber(timer, <<"T", "I", "M">>, <<>>)
    IN  <<"PWM">>
        \o (IF timer_num_match # None /\ IntValue(timer_num_match[1]) <= 8
            THEN <<"DShot">> \o (IF \E i \in 1..Len(outputs) : outputs[i].bidir
                                 THEN <<"BDShot">> ELSE <<>>)
            ELSE <<>>)

\* OutputGroup(outputs=[o.number for o in outputs], timer=timer, capabilities=caps)
OutputGroup(timer, outputs) ==
    [outputs |-> [i \in 1..Len(outputs) |-> outputs[i].number],
     timer |-> timer,
     capabilities |-> Capabilities(timer, outputs)]

\* a faulty grouping by timer channel instead of timer
GroupKeyChannel(o) == o.timer_channel

\* the key the pins are grouped by
GroupKey(o) == o.timer

\* the groups appended to board.output_groups
OutputGroups(pins) ==
    LET keys == SortedStrings({GroupKey(pins[i]) : i \in 1..Len(pins)})
    IN  [k \in 1..Len(keys) |->
            OutputGroup(keys[k],
                        SortByNumber(SelectSeq(pins, LAMBDA o : GroupKey(o) = keys[k])))]

----------------------------------------------------------------------------
(* HwdefParser._detect_sensors *)

KNOWN_IMU_CHIPS ==
    <<<<"m", "p", "u", "6", "0", "0", "0">>, <<"m", "p", "u", "6", "5", "0", "0">>, <<"m", "p", "u", "9", "2", "5", "0">>,
      <<"i", "c", "m", "2", "0", "6", "0", "2">>, <<"i", "c", "m", "2", "0", "6", "0", "8">>, <<"i", "c", "m", "2", "0", "6", "8", "9">>, <<"i", "c", "m", "2", "0", "9", "4", "8">>,
      <<"i", "c", "m", "4", "0", "6", "0", "9">>, <<"i", "c", "m", "4", "2", "6", "0", "5">>, <<"i", "c", "m", "4", "2", "6", "7", "0">>, <<"i", "c", "m", "4", "2", "6", "8", "8">>,
      <<"i", "c", "m", "4", "5", "6", "8", "6">>,
      <<"b", "m", "i", "0", "5", "5">>, <<"b", "m", "i", "0", "8", "8">>, <<"b", "m", "i", "2", "7", "0">>,
      <<"l", "s", "m", "9", "d", "s", "1">>, <<"l", "s", "m", "6", "d", "s", "l">>, <<"l", "s", "m", "6", "d", "s", "r", "x">>,
      <<"a", "d", "i", "s", "1", "6", "4", "7", "0">>, <<"a", "d", "i", "s", "1", "6", "5", "0", "7">>,
      <<"i", "a", "m", "2", "0", "6", "8", "0">>,
      <<"i", "i", "m", "4", "2", "6", "5", "2">>,
      <<"q", "m", "c", "5", "8", "8", "3", "l">>>>

KNOWN_BARO_CHIPS ==
    <<<<"b", "m", "p", "2", "8", "0">>, <<"b", "m", "p", "3", "8", "8">>, <<"b", "m", "p", "3", "9", "0">>, <<"b", "m", "p", "5", "8", "1">>,
      <<"d", "p", "s", "3", "1", "0">>,
      <<"m", "s", "5", "6", "1", "1">>, <<"m", "s", "5", "6", "0", "7">>,
      <<"s", "p", "l", "0", "6">>,
      <<"i", "c", "p", "1", "0", "1", "x", "x">>, <<"i", "c", "p", "2", "0", "1", "x", "x">>,
      <<"l", "p", "s", "2", "2", "h">>, <<"l", "p", "s", "2", "5", "h">>,
      <<"2", "s", "m", "p", "b">>>>

KNOWN_COMPASS_CHIPS ==
    <<<<"i", "s", "t", "8", "3", "1", "0">>, <<"i", "s", "t", "8", "3", "0", "8">>,
      <<"h", "m", "c", "5", "8", "4", "3">>, <<"h", "m", "c", "5", "8", "8", "3">>, <<"h", "m", "c", "5", "8", "8", "3", "l">>,
      <<"q", "m", "c", "5", "8", "8", "3", "l">>, <<"q", "m", "c", "5", "8", "8", "3">>,
      <<"l", "i", "s", "3", "m", "d", "l">>,
      <<"a", "k", "8", "9", "6", "3">>, <<"a", "k", "0", "9", "9", "1", "6">>,
      <<"r", "m", "3", "1", "0", "0">>,
      <<"m", "m", "c", "3", "4", "1", "6">>, <<"m", "m", "c", "5", "6", "0", "3">>, <<"m", "m", "c", "5", "9", "8", "3">>,
      <<"b", "m", "m", "1", "5", "0">>, <<"b", "m", "m", "3", "5", "0">>>>

KNOWN_OSD_CHIPS == <<<<"m", "a", "x", "7", "4", "5", "6">>, <<"a", "t", "7", "4", "5", "6", "e">>, <<"a", "t", "7", "4", "5", "6">>>>

KNOWN_FLASH_CHIPS ==
    <<<<"w", "2", "5", "q", "1", "2", "8">>, <<"w", "2", "5", "q", "2", "5", "6">>, <<"w", "2", "5", "q", "6", "4">>, <<"w", "2", "5", "q", "3", "2">>, <<"w", "2", "5", "q", "1", "6">>,
      <<"w", "2", "5", "n", "0", "1", "g">>, <<"w", "2", "5", "n", "0", "2", "g">>, <<"w", "2", "5", "n", "5", "1", "2", "g">>,
      <<"m", "2", "5", "p", "1", "6">>,
      <<"g", "d", "2", "5", "q", "1", "6">>, <<"g", "d", "2", "5", "q", "3", "2">>, <<"g", "d", "2", "5", "q", "6", "4">>,
      <<"a", "t", "2", "5", "s", "f", "1", "6", "1">>,
      <<"i", "s", "2", "5", "l", "p", "0", "1", "6", "d">>>>

Reverse(s) == [i \in 1..Len(s) |-> s[Len(s) + 1 - i]]

\* The chip collections are Python sets of str: their iteration order is fixed
\* for one interpreter run and differs between runs (hash randomisation). Two
\* orders stand for the possible ones: the order of the source text and its
\* reverse.
ChipOrders == {"listed", "reversed"}
Ordered(chips, order) == IF order = "listed" THEN chips ELSE Reverse(chips)

\* for chip in chips: if chip in name: ...; break -- the chip the loop stops at
FirstMatch(chips, name) ==
    LET hits == {i \in 1..Len(chips) : Contains(name, chips[i])}
    IN  IF hits = {} THEN None
        ELSE Some(chips[CHOOSE h \in hits : \A k \in hits : h <= k])

\* a faulty append that does not look for the name in the list
AppendAlways(list, hit) == IF hit = None THEN list ELSE Append(list, Upper(hit[1]))

\* if pretty not in list: list.append(pretty)
AppendNew(list, hit) ==
    IF hit = None \/ (\E i \in 1..Len(list) : list[i] = Upper(hit[1]))
    THEN list ELSE Append(list, Upper(hit[1]))

\* osd / flash: overwritten by every device that matches
Overwrite(old, hit) == IF hit = None THEN old ELSE Some(Upper(hit[1]))

\* the body of the loop over board.spi_devices, for one device
DetectDevice(sens, dev, order) ==
    LET name == Lower(dev.name)
    IN  [imu |-> AppendNew(sens.imu, FirstMatch(Ordered(KNOWN_IMU_CHIPS, order), name)),
         barometer |-> AppendNew(sens.barometer, FirstMatch(Ordered(KNOWN_BARO_CHIPS, order), name)),
         compass |-> AppendNew(sens.compass, FirstMatch(Ordered(KNOWN_COMPASS_CHIPS, order), name)),
         osd |-> Overwrite(sens.osd, FirstMatch(Ordered(KNOWN_OSD_CHIPS, order), name)),
         flash |-> Overwrite(sens.flash, FirstMatch(Ordered(KNOWN_FLASH_CHIPS, order), name)),
         sdcard |-> sens.sdcard \/ Contains(name, <<"s", "d", "c", "a", "r", "d">>) \/ Contains(name, <<"s", "d", "_", "c", "a", "r", "d">>)]

\* _detect_sensors: the sensors after all devices
RECURSIVE DetectSensorsFrom(_, _, _)
DetectSensorsFrom(sens, devs, order) ==
    IF devs = <<>> THEN sens
    ELSE DetectSensorsFrom(DetectDevice(sens, Head(devs), order), Tail(devs), order)

----------------------------------------------------------------------------
(* HwdefParser._detect_rc_input *)

IsSkipped(line) == line = <<>> \/ StartsWith(line, <<"#">>)

\* the line is classified as a timer input
IsTimerRcin(line) ==
    Contains(line, <<"R", "C", "I", "N">>) /\ Contains(line, <<"T", "I", "M">>) /\ Len(Split(line)) >= 3

\* the line is classified as a UART input
IsUartRcin(line) ==
    Contains(line, <<"R", "C", "I", "N">>) /\ (Contains(line, <<"U", "S", "A", "R", "T">>) \/ Contains(line, <<"U", "A", "R", "T">>))

\* the RcInput the loop leaves behind: that of the first line it breaks at
RECURSIVE ScanRcInput(_, _)
ScanRcInput(rc, ls) ==
    IF ls = <<>> THEN rc
    ELSE IF IsSkipped(Head(ls)) THEN ScanRcInput(rc, Tail(ls))
    ELSE IF IsTimerRcin(Head(ls))
    THEN [RcInput EXCEPT !.input_type = <<"t", "i", "m", "e", "r">>,
                         !.pin = Split(Head(ls))[1], !.timer = Split(Head(ls))[3]]
    ELSE IF IsUartRcin(Head(ls))
    THEN [RcInput EXCEPT !.input_type = <<"u", "a", "r", "t">>,
                         !.pin = IF Split(Head(ls)) # <<>> THEN Split(Head(ls))[1] ELSE <<>>]
    ELSE ScanRcInput(rc, Tail(ls))

\* board.defines.get(name, '')
DictGet(d, name) == IF name \in DOMAIN d THEN d[name] ELSE <<>>

\* an RC-input resolver that also looks at the DMA flags of the serial channels
DetectRcInputSeeingUarts(b, ls) ==
    LET rc == ScanRcInput(b.rc_input, ls)
    IN  IF DictGet(b.defines, <<"H", "A", "L", "_", "S", "E", "R", "I", "A", "L", "_", "I", "N", "P", "U", "T", "_", "E", "N", "A", "B", "L", "E", "D">>) = <<"1">>
           \/ \E i \in 1..Len(b.uarts) : b.uarts[i].tx_dma
        THEN [rc EXCEPT !.input_type = <<"u", "a", "r", "t">>]
        ELSE rc

\* _detect_rc_input
DetectRcInput(b, ls) ==
    LET rc == ScanRcInput(b.rc_input, ls)
    IN  IF DictGet(b.defines, <<"H", "A", "L", "_", "S", "E", "R", "I", "A", "L", "_", "I", "N", "P", "U", "T", "_", "E", "N", "A", "B", "L", "E", "D">>) = <<"1">>
        THEN [rc EXCEPT !.input_type = <<"u", "a", "r", "t">>]
        ELSE rc

----------------------------------------------------------------------------
(* HwdefParser._parse_uart_details *)

\* func.rsplit('_', 1)[0]
BeforeLastUnderscore(func) ==
    IF HasChar(func, "_")
    THEN SubSeq(func, 1, (CHOOSE i \in 1..Len(func) :
                              func[i] = "_" /\ \A j \in (i + 1)..Len(func) : func[j] # "_") - 1)
    ELSE func

\* the line is a TX/RX pin line of a serial port
IsUartPinLine(line) ==
    /\ ~IsSkipped(line)
    /\ Len(Split(line)) >= 2
    /\ \E uart_prefix \in {<<"U", "S", "A", "R", "T">>, <<"U", "A", "R", "T">>, <<"L", "P", "U", "A", "R", "T">>} :
          StartsWith(Split(line)[2], uart_prefix)
    /\ Contains(Split(line)[2], <<"_", "T", "X">>) \/ Contains(Split(line)[2], <<"_", "R", "X">>)

\* uart_pins after the first loop: uart name -> [tx, rx]
RECURSIVE UartPins(_, _)
UartPins(pins, ls) ==
    IF ls = <<>> THEN pins
    ELSE IF ~IsUartPinLine(Head(ls)) THEN UartPins(pins, Tail(ls))
    ELSE LET pin == Split(Head(ls))[1]
             func == Split(Head(ls))[2]
             uart_name == BeforeLastUnderscore(func)
             old == IF uart_name \in DOMAIN pins THEN pins[uart_name]
                    ELSE [tx |-> <<>>, rx |-> <<>>]
             new == IF Contains(func, <<"_", "T", "X">>) THEN [old EXCEPT !.tx = pin]
                    ELSE [old EXCEPT !.rx = pin]
         IN  UartPins((uart_name :> new) @@ pins, Tail(ls))

\* the prefixes a token of a NODMA line is tested against
NodmaPrefixes == {<<"U", "S", "A", "R", "T">>, <<"U", "A", "R", "T">>}

\* nodma_uarts after the second loop
NodmaUarts(ls) ==
    {p \in UNION {{Split(ls[i])[k] : k \in 1..Len(Split(ls[i]))} :
                     i \in {j \in 1..Len(ls) : ~IsSkipped(ls[j]) /\ Contains(ls[j], <<"N", "O", "D", "M", "A">>)}} :
        \E uart_prefix \in NodmaPrefixes : StartsWith(p, uart_prefix)}

\* the loop body with NODMA read as turning TX DMA off as well
EnrichUartNodmaBoth(uart, uart_pins, nodma_uarts) ==
    LET name == uart.uart_name
        seen == name \in DOMAIN uart_pins
        dma == ~uart.is_usb /\ ~uart.is_empty
    IN  [uart EXCEPT
            !.has_tx = IF seen THEN uart_pins[name].tx # <<>> ELSE @,
            !.has_rx = IF seen THEN uart_pins[name].rx # <<>> ELSE @,
            !.tx_dma = IF dma THEN name \notin nodma_uarts ELSE @,
            !.rx_dma = IF dma THEN name \notin nodma_uarts ELSE @]

\* the loop body with a channel that has no pin line read as having no pins
EnrichUartUnseenOff(uart, uart_pins, nodma_uarts) ==
    LET name == uart.uart_name
        seen == name \in DOMAIN uart_pins
        dma == ~uart.is_usb /\ ~uart.is_empty
    IN  [uart EXCEPT
            !.has_tx = seen /\ uart_pins[name].tx # <<>>,
            !.has_rx = seen /\ uart_pins[name].rx # <<>>,
            !.tx_dma = IF dma THEN TRUE ELSE @,
            !.rx_dma = IF dma THEN name \notin nodma_uarts ELSE @]

\* the body of the loop over board.uarts, for one channel
EnrichUart(uart, uart_pins, nodma_uarts) ==
    LET name == uart.uart_name
        seen == name \in DOMAIN uart_pins
        dma == ~uart.is_usb /\ ~uart.is_empty
    IN  [uart EXCEPT
            !.has_tx = IF seen THEN uart_pins[name].tx # <<>> ELSE @,
            !.has_rx = IF seen THEN uart_pins[name].rx # <<>> ELSE @,
            !.tx_dma = IF dma THEN TRUE ELSE @,
            !.rx_dma = IF dma THEN name \notin nodma_uarts ELSE @]

\* the lines that follow the first SERIAL_ORDER line
RECURSIVE AfterSerialOrder(_)
AfterSerialOrder(ls) ==
    IF ls = <<>> THEN <<>>
    ELSE IF StartsWith(Head(ls), <<"S", "E", "R", "I", "A", "L", "_", "O", "R", "D", "E", "R">>) THEN Tail(ls)
    ELSE AfterSerialOrder(Tail(ls))

\* the enrichment reading only the pin lines that follow SERIAL_ORDER
ParseUartDetailsAfterOrder(uarts, ls) ==
    [i \in 1..Len(uarts) |->
        EnrichUart(uarts[i], UartPins(EmptyDict, AfterSerialOrder(ls)), NodmaUarts(ls))]

\* _parse_uart_details: board.uarts afterwards
ParseUartDetails(uarts, ls) ==
    [i \in 1..Len(uarts) |-> EnrichUart(uarts[i], UartPins(EmptyDict, ls), NodmaUarts(ls))]

----------------------------------------------------------------------------
(* HwdefParser._resolve_board_id *)

ResolveBoardId(b) ==
    IF b.apj_board_id = None /\ b.apj_board_id_name # <<>>
    THEN IF b.apj_board_id_name \in DOMAIN board_ids
         THEN Some(board_ids[b.apj_board_id_name])
         ELSE IF IsIntLiteral(b.apj_board_id_name)
              THEN Some(IntValue(b.apj_board_id_name))
              ELSE None
    ELSE b.apj_board_id

----------------------------------------------------------------------------
(* HwdefParser._parse_defaults *)

IsDefaultsSep(c) == IsSpace(c) \/ c = ","

RECURSIVE LStripSeps(_)
LStripSeps(s) == IF s # <<>> /\ IsDefaultsSep(Head(s)) THEN LStripSeps(Tail(s)) ELSE s

\* re.split(r'[\s,]+', line, maxsplit=1)
SplitDefaults(line) ==
    IF \E i \in 1..Len(line) : IsDefaultsSep(line[i])
    THEN LET n == CHOOSE i \in 1..Len(line) :
                     IsDefaultsSep(line[i]) /\ \A j \in 1..(i - 1) : ~IsDefaultsSep(line[j])
         IN  <<SubSeq(line, 1, n - 1), LStripSeps(SubSeq(line, n, Len(line)))>>
    ELSE <<line>>

RECURSIVE ParseDefaultsFrom(_, _)
ParseDefaultsFrom(params, raw) ==
    IF raw = <<>> THEN params
    ELSE LET line == Strip(Head(raw))
         IN  IF IsSkipped(line) \/ Len(SplitDefaults(line)) # 2
             THEN ParseDefaultsFrom(params, Tail(raw))
             ELSE ParseDefaultsFrom((SplitDefaults(line)[1] :> SplitDefaults(line)[2]) @@ params,
                                    Tail(raw))

\* _parse_defaults(filepath): a file that cannot be read gives no parameters
ParseDefaults(filepath) ==
    IF fs[ResolvePath(filepath)].readable
    THEN ParseDefaultsFrom(EmptyDict, fs[ResolvePath(filepath)].lines)
    ELSE EmptyDict

----------------------------------------------------------------------------
(* HwdefParser.parse_board *)

\* the board folders the calls name
BoardFolders == {<<"A">>, <<"B">>}

\* hwdef_file = board_folder / "hwdef.dat"
HwdefFile(name) == <<hwdef_dir, name, <<"h", "w", "d", "e", "f", ".", "d", "a", "t">>>>

\* what a parse_board call returned, and the flattened lines it worked on
Returned(name, ls, result) == [folder |-> name, lines |-> ls, board |-> result]

\* the entry joins the log, and the fresh log when the call began with an empty cache
Record(entry, began_cold) ==
    /\ log' = log \cup {entry}
    /\ fresh_log' = IF began_cold THEN fresh_log \cup {entry} ELSE fresh_log

\* if not hwdef_file.exists(): return None
ParseBoardNoHwdef ==
    /\ pc = "idle"
    /\ ~batch.running
    /\ \E name \in BoardFolders :
          /\ ~Exists(HwdefFile(name))
          /\ Record(Returned(name, <<>>, None), include_cache = EmptyDict)
    /\ UNCHANGED <<env, batch, chip_order, include_cache, read_count, pc, call, stack, cold, board,
                   lines, li, undefs>>

\* board = BoardData(); ...; lines = self.resolve_lines(hwdef_file)
ParseBoard ==
    /\ pc = "idle"
    /\ ~batch.running
    /\ \E name \in BoardFolders :
          /\ Exists(HwdefFile(name))
          /\ board' = BoardData(name)
          /\ call' = [filepath |-> HwdefFile(name), depth |-> 0]
    /\ stack' = <<>>
    /\ cold' = (include_cache = EmptyDict)
    /\ pc' = "resolve"
    /\ UNCHANGED <<env, batch, hist, chip_order, include_cache, read_count, lines, li, undefs>>

\* str.lstrip('#')
RECURSIVE LStripHash(_)
LStripHash(s) == IF s # <<>> /\ Head(s) = "#" THEN LStripHash(Tail(s)) ELSE s

\* the comment lines before the first line that is neither comment nor blank
RECURSIVE HeaderLines(_)
HeaderLines(ls) ==
    IF ls = <<>> THEN <<>>
    ELSE IF StartsWith(Head(ls), <<"#">>)
         THEN <<Strip(LStripHash(Head(ls)))>> \o HeaderLines(Tail(ls))
         ELSE IF Head(ls) # <<>> THEN <<>>
         ELSE HeaderLines(Tail(ls))

\* the number of header comment lines kept
MaxHeaderLines == 10

\* '\n'.join(header)
RECURSIVE JoinLines(_)
JoinLines(header) ==
    IF header = <<>> THEN <<>>
    ELSE IF Len(header) = 1 THEN header[1]
    ELSE header[1] \o <<"\n">> \o JoinLines(Tail(header))

\* header[:10]
FirstHeaderLines(header) ==
    SubSeq(header, 1, IF Len(header) < MaxHeaderLines THEN Len(header) ELSE MaxHeaderLines)

\* board.header_comments = '\n'.join(header[:10]); undefs = set()
ExtractHeader ==
    /\ pc = "header"
    /\ board' = [board EXCEPT !.header_comments = JoinLines(FirstHeaderLines(HeaderLines(lines)))]
    /\ undefs' = {}
    /\ li' = 1
    /\ pc' = "process"
    /\ UNCHANGED <<env, batch, hist, chip_order, include_cache, read_count, call, stack, cold, lines>>

InProcessLoop == pc = "process" /\ li <= Len(lines)
IsUndefLine(line) == StartsWith(line, <<"u", "n", "d", "e", "f", " ">>)

\* if not line or line.startswith('#'): continue
SkipLine ==
    /\ InProcessLoop
    /\ IsSkipped(lines[li])
    /\ li' = li + 1
    /\ UNCHANGED <<env, batch, hist, chip_order, include_cache, read_count, pc, call, stack, cold,
                   board, lines, undefs>>

\* if line.startswith('undef '): undefs.add(line.split(None, 1)[1].strip()); continue
TrackUndef ==
    /\ InProcessLoop
    /\ ~IsSkipped(lines[li])
    /\ IsUndefLine(lines[li])
    /\ undefs' = undefs \cup {Strip(Split1(lines[li])[2])}
    /\ li' = li + 1
    /\ UNCHANGED <<env, batch, hist, chip_order, include_cache, read_count, pc, call, stack, cold,
                   board, lines>>

\* self._process_line(board, parts, line, undefs)
ProcessDirective ==
    /\ InProcessLoop
    /\ ~IsSkipped(lines[li])
    /\ ~IsUndefLine(lines[li])
    /\ \E after \in {ProcessLine(board, Split(lines[li]), lines[li], undefs)} :
          /\ after # ValueError
          /\ board' = after
    /\ li' = li + 1
    /\ UNCHANGED <<env, batch, hist, chip_order, include_cache, read_count, pc, call, stack, cold,
                   lines, undefs>>

\* self._process_line(board, parts, line, undefs) raises: the exception leaves
\* parse_board; main's loop catches it, records the folder's name with the
\* message and goes on to the next folder; a caller other than main's loop is
\* ended by it
ProcessDirectiveRaises ==
    /\ InProcessLoop
    /\ ~IsSkipped(lines[li])
    /\ ~IsUndefLine(lines[li])
    /\ ProcessLine(board, Split(lines[li]), lines[li], undefs) = ValueError
    /\ pc' = IF batch.running THEN "idle" ELSE "raised"
    /\ batch' = Caught(batch, ExceedsLimit)
    /\ UNCHANGED <<env, hist, chip_order, include_cache, read_count, call, stack, cold, board,
                   lines, li, undefs>>

\* self._compute_output_groups(board)
PassOutputGroups ==
    /\ pc = "process" /\ li > Len(lines)
    /\ board' = [board EXCEPT !.output_groups = @ \o OutputGroups(board.pwm_outputs)]
    /\ pc' = "sensors"
    /\ UNCHANGED <<env, batch, hist, chip_order, include_cache, read_count, call, stack, cold,
                   lines, li, undefs>>

\* self._detect_sensors(board): the first walk over a chip set fixes its order
PassSensors ==
    /\ pc = "sensors"
    /\ \E order \in ChipOrders :
          /\ chip_order \in {"unset", order}
          /\ chip_order' = IF board.spi_devices = <<>> THEN chip_order ELSE order
          /\ board' = [board EXCEPT !.sensors = DetectSensorsFrom(@, board.spi_devices, order)]
    /\ pc' = "rc_input"
    /\ UNCHANGED <<env, batch, hist, include_cache, read_count, call, stack, cold, lines, li, undefs>>

\* self._detect_rc_input(board, lines)
PassRcInput ==
    /\ pc = "rc_input"
    /\ board' = [board EXCEPT !.rc_input = DetectRcInput(board, lines)]
    /\ pc' = "uart_details"
    /\ UNCHANGED <<env, batch, hist, chip_order, include_cache, read_count, call, stack, cold,
                   lines, li, undefs>>

\* self._parse_uart_details(board, lines)
PassUartDetails ==
    /\ pc = "uart_details"
    /\ board' = [board EXCEPT !.uarts = ParseUartDetails(@, lines)]
    /\ pc' = "board_id"
    /\ UNCHANGED <<env, batch, hist, chip_order, include_cache, read_count, call, stack, cold,
                   lines, li, undefs>>

\* self._resolve_board_id(board)
PassBoardId ==
    /\ pc = "board_id"
    /\ board' = [board EXCEPT !.apj_board_id = ResolveBoardId(board)]
    /\ pc' = "defaults"
    /\ UNCHANGED <<env, batch, hist, chip_order, include_cache, read_count, call, stack, cold,
                   lines, li, undefs>>

\* defaults_file = board_folder / "defaults.parm"
DefaultsFile(name) == <<hwdef_dir, name, <<"d", "e", "f", "a", "u", "l", "t", "s", ".", "p", "a", "r", "m">>>>

\* the board parse_board returns
Finished(b) ==
    IF Exists(DefaultsFile(b.folder_name))
    THEN [b EXCEPT !.default_params = ParseDefaults(DefaultsFile(b.folder_name))]
    ELSE b

\* if defaults_file.exists(): board.default_params = ...; return board
ReturnBoard ==
    /\ pc = "defaults"
    /\ board' = Finished(board)
    /\ Record(Returned(board.folder_name, lines, Some(Finished(board))), cold)
    /\ pc' = "idle"
    /\ UNCHANGED <<env, batch, chip_order, include_cache, read_count, call, stack, cold, lines, li,
                   undefs>>

\* HwdefParser(hwdef_dir, board_ids): a new parser, its cache empty, made by this
\* run of the script or by a later run, whose sets iterate in an order of their own
NewParser ==
    /\ pc = "idle"
    /\ ~batch.running
    /\ include_cache # EmptyDict \/ log # {}
    /\ include_cache' = EmptyDict
    /\ read_count' = [f \in DOMAIN fs |-> 0]
    /\ log' = {}
    /\ chip_order' \in {chip_order, "unset"}
    /\ UNCHANGED <<env, batch, pc, call, stack, cold, board, lines, li, undefs, fresh_log>>

----------------------------------------------------------------------------
(* main *)

\* the names of the directories of hwdef_root
Directories ==
    {q[2] : q \in {r \in DOMAIN fs : Len(r) >= 3 /\ r[1] = ResolvePath(<<hwdef_dir>>)[1]}}

\* all_folders = sorted([d for d in hwdef_root.iterdir()
\*                       if d.is_dir() and (d / 'hwdef.dat').exists()])
AllFolders == SortedStrings({d \in Directories : Exists(HwdefFile(d))})

\* hwdef_parser = HwdefParser(hwdef_root, board_ids); results = []; errors = [];
\* skipped_bl = 0: the script has made its parser and enters the loop
MainStart ==
    /\ pc = "idle"
    /\ ~batch.running
    /\ include_cache = EmptyDict /\ log = {} /\ fresh_log = {}
    /\ batch' = [NoBatch EXCEPT !.running = TRUE, !.todo = AllFolders]
    /\ UNCHANGED <<env, hist, chip_order, include_cache, read_count, pc, call, stack, cold,
                   board, lines, li, undefs>>

\* for folder in all_folders: board = hwdef_parser.parse_board(folder)
\* (hwdef.dat exists for every folder of all_folders, so the call enters
\* resolve_lines and `board is None` does not happen)
MainParseBoard ==
    /\ pc = "idle"
    /\ batch.running /\ batch.folder = <<>> /\ batch.todo # <<>>
    /\ \E name \in {Head(batch.todo)} :
          /\ board' = BoardData(name)
          /\ call' = [filepath |-> HwdefFile(name), depth |-> 0]
          /\ batch' = [batch EXCEPT !.todo = Tail(@), !.folder = <<name>>,
                                    !.calls = Append(@, name)]
    /\ stack' = <<>>
    /\ cold' = (include_cache = EmptyDict)
    /\ pc' = "resolve"
    /\ UNCHANGED <<env, hist, chip_order, include_cache, read_count, lines, li, undefs>>

\* not board.is_bootloader and board.serial_order
Accepted(b) == ~b.is_bootloader /\ b.serial_order # <<>>

\* if board.is_bootloader: skipped_bl += 1; continue
\* if not board.serial_order: continue
\* results.append(board)
MainTakeBoard ==
    /\ pc = "idle"
    /\ batch.running /\ batch.folder # <<>>
    /\ batch' = [batch EXCEPT !.folder = <<>>,
                              !.skipped_bl = IF board.is_bootloader THEN @ + 1 ELSE @,
                              !.results = IF Accepted(board) THEN Append(@, board) ELSE @]
    /\ UNCHANGED <<env, hist, chip_order, include_cache, read_count, pc, call, stack, cold,
                   board, lines, li, undefs>>

----------------------------------------------------------------------------
(* The files the model is run on *)

File(ls) == [lines |-> ls, readable |-> TRUE]
Unreadable == [lines |-> <<>>, readable |-> FALSE]
PathA == <<RootAbs, <<"A">>, <<"h", "w", "d", "e", "f", ".", "d", "a", "t">>>>
PathB == <<RootAbs, <<"B">>, <<"h", "w", "d", "e", "f", ".", "d", "a", "t">>>>
PathSub == <<RootAbs, <<"A">>, <<"s", "u", "b", ".", "d", "a", "t">>>>
PathDefaultsA == <<RootAbs, <<"A">>, <<"d", "e", "f", "a", "u", "l", "t", "s", ".", "p", "a", "r", "m">>>>

\* directive lines of the include worlds
LineMcu == <<"M", "C", "U", " ", "S", "T", "M", "3", "2", "F", "4", "x", "x", " ", "S", "T", "M", "3", "2", "F", "4", "0", "5", "x", "x">>
LineFlash == <<" ", " ", "F", "L", "A", "S", "H", "_", "S", "I", "Z", "E", "_", "K", "B", " ", "1", "0", "2", "4">>
LineSerial == <<"S", "E", "R", "I", "A", "L", "_", "O", "R", "D", "E", "R", " ", "O", "T", "G", "1", " ", "U", "S", "A", "R", "T", "1", " ", "E", "M", "P", "T", "Y">>
LineComment == <<"#", " ", "b", "o", "a", "r", "d">>
LineI2c == <<"I", "2", "C", "_", "O", "R", "D", "E", "R", " ", "I", "2", "C", "1">>

\* A includes B
WorldInclude ==
    (PathA :> File(<<LineComment, LineMcu, <<"i", "n", "c", "l", "u", "d", "e", " ", ".", ".", "/", "B", "/", "h", "w", "d", "e", "f", ".", "d", "a", "t">>, LineSerial>>))
    @@ (PathB :> File(<<LineFlash, <<>>, <<"u", "n", "d", "e", "f", " ", "I", "2", "C", "_", "O", "R", "D", "E", "R">>, LineI2c>>))

\* A includes itself; B includes A
WorldSelfInclude ==
    (PathA :> File(<<LineMcu, <<"i", "n", "c", "l", "u", "d", "e", " ", "h", "w", "d", "e", "f", ".", "d", "a", "t">>, LineSerial>>))
    @@ (PathB :> File(<<<<"i", "n", "c", "l", "u", "d", "e", " ", ".", ".", "/", "A", "/", "h", "w", "d", "e", "f", ".", "d", "a", "t">>, LineI2c>>))

\* A and B include each other
WorldCycle ==
    (PathA :> File(<<LineMcu, <<"i", "n", "c", "l", "u", "d", "e", " ", ".", ".", "/", "B", "/", "h", "w", "d", "e", "f", ".", "d", "a", "t">>>>))
    @@ (PathB :> File(<<<<"i", "n", "c", "l", "u", "d", "e", " ", " ", ".", "/", ".", ".", "/", "A", "/", "h", "w", "d", "e", "f", ".", "d", "a", "t", " ">>, LineSerial>>))

\* A includes sub.dat twice, B includes it once; A has a defaults.parm
WorldTwice ==
    (PathA :> File(<<<<"i", "n", "c", "l", "u", "d", "e", " ", "s", "u", "b", ".", "d", "a", "t">>, LineSerial, <<" ", "i", "n", "c", "l", "u", "d", "e", " ", " ", " ", "s", "u", "b", ".", "d", "a", "t">>>>))
    @@ (PathSub :> File(<<LineI2c>>))
    @@ (PathB :> File(<<<<"i", "n", "c", "l", "u", "d", "e", " ", ".", ".", "/", "A", "/", "s", "u", "b", ".", "d", "a", "t">>, LineMcu>>))
    @@ (PathDefaultsA :> File(<<<<"#", " ", "d", "e", "f", "a", "u", "l", "t", "s">>, <<"S", "E", "R", "I", "A", "L", "1", "_", "B", "A", "U", "D", " ", "5", "7">>, <<"B", "A", "T", "T", "_", "M", "O", "N", "I", "T", "O", "R", ",", "4">>, <<"L", "O", "N", "E">>>>))

\* A includes itself twice
WorldSelfTwice ==
    (PathA :> File(<<<<"i", "n", "c", "l", "u", "d", "e", " ", "h", "w", "d", "e", "f", ".", "d", "a", "t">>, <<"i", "n", "c", "l", "u", "d", "e", " ", ".", "/", "h", "w", "d", "e", "f", ".", "d", "a", "t">>>>))

\* A includes a file that does not exist and one that cannot be read; B cannot be read
WorldMissing ==
    (PathA :> File(<<LineMcu, <<"i", "n", "c", "l", "u", "d", "e", " ", "n", "o", "f", "i", "l", "e", ".", "d", "a", "t">>, LineSerial, <<"i", "n", "c", "l", "u", "d", "e", " ", ".", ".", "/", "B", "/", "h", "w", "d", "e", "f", ".", "d", "a", "t">>,
                     LineI2c, <<"i", "n", "c", "l", "u", "d", "e">>, <<"i", "n", "c", "l", "u", "d", "e", " ", "/", "e", "t", "c", "/", "h", "w", "d", "e", "f", ".", "d", "a", "t">>>>))
    @@ (PathB :> Unreadable)

\* the files of a chain of includes: A/hwdef.dat, A/c1.dat, ..., A/c11.dat
ChainNames ==
    <<<<"h", "w", "d", "e", "f", ".", "d", "a", "t">>, <<"c", "1", ".", "d", "a", "t">>, <<"c", "2", ".", "d", "a", "t">>, <<"c", "3", ".", "d", "a", "t">>, <<"c", "4", ".", "d", "a", "t">>, <<"c", "5", ".", "d", "a", "t">>, <<"c", "6", ".", "d", "a", "t">>,
      <<"c", "7", ".", "d", "a", "t">>, <<"c", "8", ".", "d", "a", "t">>, <<"c", "9", ".", "d", "a", "t">>, <<"c", "1", "0", ".", "d", "a", "t">>, <<"c", "1", "1", ".", "d", "a", "t">>>>
ChainLines ==
    <<<<"I", "2", "C", "_", "O", "R", "D", "E", "R", " ", "I", "2", "C", "0">>, <<"I", "2", "C", "_", "O", "R", "D", "E", "R", " ", "I", "2", "C", "1">>, <<"I", "2", "C", "_", "O", "R", "D", "E", "R", " ", "I", "2", "C", "2">>, <<"I", "2", "C", "_", "O", "R", "D", "E", "R", " ", "I", "2", "C", "3">>,
      <<"I", "2", "C", "_", "O", "R", "D", "E", "R", " ", "I", "2", "C", "4">>, <<"I", "2", "C", "_", "O", "R", "D", "E", "R", " ", "I", "2", "C", "5">>, <<"I", "2", "C", "_", "O", "R", "D", "E", "R", " ", "I", "2", "C", "6">>, <<"I", "2", "C", "_", "O", "R", "D", "E", "R", " ", "I", "2", "C", "7">>,
      <<"I", "2", "C", "_", "O", "R", "D", "E", "R", " ", "I", "2", "C", "8">>, <<"I", "2", "C", "_", "O", "R", "D", "E", "R", " ", "I", "2", "C", "9">>, <<"I", "2", "C", "_", "O", "R", "D", "E", "R", " ", "I", "2", "C", "1", "0">>, <<"I", "2", "C", "_", "O", "R", "D", "E", "R", " ", "I", "2", "C", "1", "1">>>>

\* every file of the chain includes the next one; B includes the third file
WorldChain ==
    [p \in {<<RootAbs, <<"A">>, ChainNames[i]>> : i \in 1..Len(ChainNames)} |->
        LET i == CHOOSE k \in 1..Len(ChainNames) : p[3] = ChainNames[k]
        IN  File(IF i < Len(ChainNames)
                 THEN <<<<"i", "n", "c", "l", "u", "d", "e", " ">> \o ChainNames[i + 1], ChainLines[i]>>
                 ELSE <<ChainLines[i]>>)]
    @@ (PathB :> File(<<LineSerial, <<"i", "n", "c", "l", "u", "d", "e", " ", ".", ".", "/", "A", "/", "c", "2", ".", "d", "a", "t">>>>))

\* A's hwdef.dat includes a path that holds the character U+0000
LineNul == <<"i", "n", "c", "l", "u", "d", "e", " ", "a">> \o <<Nul>> \o <<"b">>
WorldNul == (PathA :> File(<<LineMcu, LineNul, LineSerial>>))

\* a timer pin whose PWM number has one digit more than int() converts
LineLongPwm ==
    <<"P", "A", "0", " ", "T", "I", "M", "1", "_", "C", "H", "1", " ", "T", "I", "M", "1", " ", "P", "W", "M", "(">> \o [i \in 1..(MaxStrDigits + 1) |-> "1"] \o <<")">>
WorldLongNumber == (PathA :> File(<<LineSerial, LineLongPwm, LineFlash>>))

IncludeWorlds ==
    {WorldInclude, WorldSelfInclude, WorldCycle, WorldTwice, WorldSelfTwice, WorldMissing,
     WorldChain, WorldNul, WorldLongNumber}

\* the longest hwdef.dat of the directive worlds, in lines
MaxLines == 2

\* the lines a hwdef.dat of the directive worlds is made of
DirectivePool ==
    { <<"S", "E", "R", "I", "A", "L", "_", "O", "R", "D", "E", "R", " ", "O", "T", "G", "1", " ", "U", "S", "A", "R", "T", "1", " ", "E", "M", "P", "T", "Y">>,
      <<"S", "E", "R", "I", "A", "L", "_", "O", "R", "D", "E", "R", " ", "U", "S", "A", "R", "T", "1", " ", "U", "S", "B", " ", "U", "S", "A", "R", "T", "1", " ", "U", "A", "R", "T", "4">>,
      <<"P", "A", "9", " ", "U", "S", "A", "R", "T", "1", "_", "T", "X", " ", "U", "S", "A", "R", "T", "1">>,
      <<"P", "A", "1", "0", " ", "U", "S", "A", "R", "T", "1", "_", "R", "X", " ", "U", "S", "A", "R", "T", "1", " ", "N", "O", "D", "M", "A">>,
      <<"P", "A", "0", " ", "T", "I", "M", "2", "_", "C", "H", "1", "N", " ", "T", "I", "M", "2", " ", "P", "W", "M", "(", "1", ")", " ", "B", "I", "D", "I", "R">>,
      <<"P", "B", "0", " ", "T", "I", "M", "1", "_", "C", "H", "2", " ", "T", "I", "M", "1", " ", "P", "W", "M", "(", "1", ")", " ", "G", "P", "I", "O", "(", "5", "0", ")">>,
      <<"P", "A", "1", " ", "T", "I", "M", "2", "_", "C", "H", "2", " ", "T", "I", "M", "2", " ", "P", "W", "M", "(", "2", ")">>,
      <<"P", "C", "6", " ", "T", "I", "M", "1", "0", "_", "C", "H", "1", " ", "T", "I", "M", "1", "0", " ", "P", "W", "M", "(", "0", ")">> }

RECURSIVE SeqsUpTo(_, _)
SeqsUpTo(S, n) ==
    IF n = 0 THEN {<<>>}
    ELSE SeqsUpTo(S, n - 1)
         \cup {Append(q, x) : q \in {r \in SeqsUpTo(S, n - 1) : Len(r) = n - 1}, x \in S}

\* one board folder A whose hwdef.dat is any sequence of pool lines
DirectiveWorlds == {(PathA :> File(ls)) : ls \in SeqsUpTo(DirectivePool, MaxLines)}

\* board_types.txt as parse_board_types loaded it
BoardIdTable == (<<"A", "P", "_", "H", "W", "_", "A">> :> 1013) @@ (<<"4", "2">> :> 7)

----------------------------------------------------------------------------
(* The specification *)

Init ==
    /\ \/ fs \in IncludeWorlds /\ hwdef_dir \in {RootAbs, RootRel}
       \/ fs \in DirectiveWorlds /\ hwdef_dir = RootAbs
    /\ board_ids = BoardIdTable
    /\ chip_order = "unset"
    /\ include_cache = EmptyDict
    /\ read_count = [f \in DOMAIN fs |-> 0]
    /\ pc = "idle"
    /\ call = NoCall
    /\ stack = <<>>
    /\ cold = TRUE
    /\ board = BoardData(<<>>)
    /\ lines = <<>>
    /\ li = 1
    /\ undefs = {}
    /\ log = {}
    /\ fresh_log = {}
    /\ batch = NoBatch

Next ==
    \/ ParseBoardNoHwdef
    \/ ParseBoard
    \/ ResolveDepthExceeded
    \/ ResolveCacheHit
    \/ ResolveFileNotFound
    \/ ResolveReadError
    \/ ResolveReadFile
    \/ ResolveKeepBlankOrComment
    \/ ResolveInclude
    \/ ResolveIncludeRaises
    \/ ResolveIncludeNoPath
    \/ ResolveKeepLine
    \/ ResolveReturn
    \/ ExtractHeader
    \/ SkipLine
    \/ TrackUndef
    \/ ProcessDirective
    \/ ProcessDirectiveRaises
    \/ PassOutputGroups
    \/ PassSensors
    \/ PassRcInput
    \/ PassUartDetails
    \/ PassBoardId
    \/ ReturnBoard
    \/ NewParser
    \/ MainStart
    \/ MainParseBoard
    \/ MainTakeBoard

Spec == Init /\ [][Next]_vars

\* a step of a running resolve_lines call
ResolveStep ==
    \/ ResolveDepthExceeded
    \/ ResolveCacheHit
    \/ ResolveFileNotFound
    \/ ResolveReadError
    \/ ResolveReadFile
    \/ ResolveKeepBlankOrComment
    \/ ResolveInclude
    \/ ResolveIncludeRaises
    \/ ResolveIncludeNoPath
    \/ ResolveKeepLine
    \/ ResolveReturn

\* the runs over the include worlds in which a running resolve_lines call is
\* carried through: the interpreter does not postpone its next step for ever
InitLive == Init /\ fs \in IncludeWorlds
SpecLive == InitLive /\ [][Next]_vars /\ WF_vars(ResolveStep)

----------------------------------------------------------------------------
(* Families of hwdef.dat files, one per group of directives *)

\* include worlds that take the resolver through each of its branches
CoverWorlds == {WorldInclude, WorldSelfTwice, WorldMissing, WorldNul, WorldLongNumber}

\* a parser over one of the worlds, before its first call
InitOver(worlds) ==
    /\ fs \in worlds \cup CoverWorlds
    /\ hwdef_dir = RootAbs
    /\ board_ids = BoardIdTable
    /\ chip_order = "unset"
    /\ include_cache = EmptyDict
    /\ read_count = [f \in DOMAIN fs |-> 0]
    /\ pc = "idle"
    /\ call = NoCall
    /\ stack = <<>>
    /\ cold = TRUE
    /\ board = BoardData(<<>>)
    /\ lines = <<>>
    /\ li = 1
    /\ undefs = {}
    /\ log = {}
    /\ fresh_log = {}
    /\ batch = NoBatch

\* one board folder A whose hwdef.dat is any sequence of lines of the pool
WorldsOf(pool) == {(PathA :> File(ls)) : ls \in SeqsUpTo(pool, MaxLines)}

\* PWM output lines on timers around the DShot limit
OutputPool ==
    { <<"P", "A", "0", " ", "T", "I", "M", "8", "_", "C", "H", "1", " ", "T", "I", "M", "8", " ", "P", "W", "M", "(", "1", ")">>,
      <<"P", "A", "1", " ", "T", "I", "M", "8", "_", "C", "H", "2", "N", " ", "T", "I", "M", "8", " ", "P", "W", "M", "(", "2", ")", " ", "B", "I", "D", "I", "R">>,
      <<"P", "B", "0", " ", "T", "I", "M", "9", "_", "C", "H", "1", " ", "T", "I", "M", "9", " ", "P", "W", "M", "(", "3", ")", " ", "B", "I", "D", "I", "R">>,
      <<"P", "B", "1", " ", "T", "I", "M", "1", "2", "_", "C", "H", "1", " ", "T", "I", "M", "1", "2", " ", "P", "W", "M", "(", "4", ")">>,
      <<"P", "C", "0", " ", "T", "I", "M", "1", "_", "C", "H", "1", " ", "T", "I", "M", "1", " ", "P", "W", "M", "(", "5", ")", " ", "G", "P", "I", "O", "(", "5", "4", ")">> }

SpecOutputs == InitOver(WorldsOf(OutputPool)) /\ [][Next]_vars

\* define lines: a value with a PWM( marker, a value with two spaces in it, a
\* name defined twice
DefinePool ==
    { <<"d", "e", "f", "i", "n", "e", " ", "H", "A", "L", "_", "X", " ", "P", "W", "M", "(", "1", ")", " ", "y">>,
      <<"d", "e", "f", "i", "n", "e", " ", "H", "A", "L", "_", "Y", " ", "a", " ", " ", "b">>,
      <<"d", "e", "f", "i", "n", "e", " ", "H", "A", "L", "_", "Z", " ", "1">>,
      <<"d", "e", "f", "i", "n", "e", " ", "H", "A", "L", "_", "Z", " ", "2">>,
      <<"d", "e", "f", "i", "n", "e", " ", "H", "A", "L", "_", "B", "A", "T", "T", "_", "V", "O", "L", "T", "_", "P", "I", "N", " ", "1", "0">> }

SpecDefines == InitOver(WorldsOf(DefinePool)) /\ [][Next]_vars

\* SPIDEV lines: a name with two known compass identifiers in it, an IMU chip
\* (a file may name it twice), a line without devid and chip-select, and a line
\* without chip-select whose name is in upper case
SensorPool ==
    { <<"S", "P", "I", "D", "E", "V", " ", "h", "m", "c", "5", "8", "8", "3", "l", " ", "S", "P", "I", "1", " ", "D", "E", "V", "I", "D", "1", " ", "M", "A", "G", "_", "C", "S">>,
      <<"S", "P", "I", "D", "E", "V", " ", "i", "c", "m", "4", "2", "6", "8", "8", " ", "S", "P", "I", "1", " ", "D", "E", "V", "I", "D", "1", " ", "I", "M", "U", "_", "C", "S">>,
      <<"S", "P", "I", "D", "E", "V", " ", "i", "c", "m", "2", "0", "6", "8", "9", " ", "S", "P", "I", "1">>,
      <<"S", "P", "I", "D", "E", "V", " ", "B", "M", "P", "3", "8", "8", " ", "S", "P", "I", "2", " ", "D", "E", "V", "I", "D", "3">> }

SpecSensors == InitOver(WorldsOf(SensorPool)) /\ [][Next]_vars

\* RCIN lines: a timer input, a UART input, a line with both markers, a line that
\* names RCIN without a timer or a serial port, and the serial-input define
RcPool ==
    { <<"P", "B", "7", " ", "T", "I", "M", "4", "_", "C", "H", "2", " ", "T", "I", "M", "4", " ", "R", "C", "I", "N", "I", "N", "T">>,
      <<"P", "A", "3", " ", "U", "S", "A", "R", "T", "2", "_", "R", "X", " ", "U", "S", "A", "R", "T", "2", " ", "R", "C", "I", "N">>,
      <<"P", "A", "1", "0", " ", "T", "I", "M", "1", "_", "C", "H", "3", " ", "T", "I", "M", "1", " ", "R", "C", "I", "N", " ", "U", "A", "R", "T">>,
      <<"d", "e", "f", "i", "n", "e", " ", "H", "A", "L", "_", "R", "C", "I", "N", "P", "U", "T", "_", "W", "I", "T", "H", "_", "A", "P", "_", "R", "A", "D", "I", "O", " ", "1">>,
      <<"d", "e", "f", "i", "n", "e", " ", "H", "A", "L", "_", "S", "E", "R", "I", "A", "L", "_", "I", "N", "P", "U", "T", "_", "E", "N", "A", "B", "L", "E", "D", " ", "1">> }

SpecRcInput == InitOver(WorldsOf(RcPool)) /\ [][Next]_vars

\* TX/RX pin lines of the three serial families, with and without NODMA
UartPool ==
    { <<"P", "A", "9", " ", "U", "S", "A", "R", "T", "1", "_", "T", "X", " ", "U", "S", "A", "R", "T", "1">>,
      <<"P", "A", "1", "0", " ", "U", "S", "A", "R", "T", "1", "_", "R", "X", " ", "U", "S", "A", "R", "T", "1", " ", "N", "O", "D", "M", "A">>,
      <<"P", "B", "7", " ", "L", "P", "U", "A", "R", "T", "1", "_", "R", "X", " ", "L", "P", "U", "A", "R", "T", "1", " ", "N", "O", "D", "M", "A">>,
      <<"P", "C", "1", "0", " ", "U", "A", "R", "T", "4", "_", "T", "X", " ", "U", "A", "R", "T", "4">> }

\* a USB channel, a channel of each family, an empty slot
UartOrderLine == <<"S", "E", "R", "I", "A", "L", "_", "O", "R", "D", "E", "R", " ", "O", "T", "G", "1", " ", "U", "S", "A", "R", "T", "1", " ", "L", "P", "U", "A", "R", "T", "1", " ", "U", "A", "R", "T", "4", " ", "E", "M", "P", "T", "Y">>

\* ls with x put after its first k members
InsertAt(ls, k, x) == SubSeq(ls, 1, k) \o <<x>> \o SubSeq(ls, k + 1, Len(ls))

\* the SERIAL_ORDER line at every place among up to MaxLines pin lines
UartWorlds ==
    UNION {{(PathA :> File(InsertAt(ls, k, UartOrderLine))) : k \in 0..Len(ls)} :
              ls \in SeqsUpTo(UartPool, MaxLines)}

SpecUarts == InitOver(UartWorlds) /\ [][Next]_vars

\* APJ_BOARD_ID lines: a name of the table, a number that is also a key of the
\* table, a number that is not, a name the table does not hold
BoardIdPool ==
    { <<"A", "P", "J", "_", "B", "O", "A", "R", "D", "_", "I", "D", " ", "A", "P", "_", "H", "W", "_", "A">>,
      <<"A", "P", "J", "_", "B", "O", "A", "R", "D", "_", "I", "D", " ", "4", "2">>,
      <<"A", "P", "J", "_", "B", "O", "A", "R", "D", "_", "I", "D", " ", "1", "4", "0">>,
      <<"A", "P", "J", "_", "B", "O", "A", "R", "D", "_", "I", "D", " ", "A", "P", "_", "H", "W", "_", "N", "O", "N", "E">> }

SpecBoardId == InitOver(WorldsOf(BoardIdPool)) /\ [][Next]_vars

\* CAN lines: keywords that start with CAN, a keyword that only holds CAN and
\* _TX, an undef and the define of the interface count
CanPool ==
    { <<"C", "A", "N", "2", "_", "R", "X", " ", "P", "B", "5">>,
      <<"C", "A", "N", "1", "_", "T", "X", " ", "P", "B", "9">>,
      <<"F", "D", "C", "A", "N", "3", "_", "T", "X", " ", "P", "D", "1">>,
      <<"u", "n", "d", "e", "f", " ", "C", "A", "N", "2", "_", "R", "X">>,
      <<"d", "e", "f", "i", "n", "e", " ", "H", "A", "L", "_", "N", "U", "M", "_", "C", "A", "N", "_", "I", "F", "A", "C", "E", "S", " ", "1">> }

SpecCan == InitOver(WorldsOf(CanPool)) /\ [][Next]_vars

\* directives whose value is no number, short token sequences, and a well-formed
\* line to follow them
MalformedPool ==
    { <<"F", "L", "A", "S", "H", "_", "S", "I", "Z", "E", "_", "K", "B", " ", "2", "M", "B">>,
      <<"O", "S", "C", "I", "L", "L", "A", "T", "O", "R", "_", "H", "Z", " ", "8", "e", "6">>,
      <<"d", "e", "f", "i", "n", "e", " ", "H", "A", "L", "_", "B", "A", "T", "T", "_", "V", "O", "L", "T", "_", "P", "I", "N", " ", "P", "C", "0">>,
      <<"d", "e", "f", "i", "n", "e", " ", "H", "A", "L", "_", "B", "A", "T", "T", "_", "C", "U", "R", "R", "_", "S", "C", "A", "L", "E", " ", "x">>,
      <<"d", "e", "f", "i", "n", "e", " ", "H", "A", "L", "_", "N", "U", "M", "_", "C", "A", "N", "_", "I", "F", "A", "C", "E", "S", " ", "t", "w", "o">>,
      <<"M", "C", "U", " ", "S", "T", "M", "3", "2">>,
      <<"F", "L", "A", "S", "H", "_", "S", "I", "Z", "E", "_", "K", "B", " ", "1", "0", "2", "4">> }

SpecMalformed == InitOver(WorldsOf(MalformedPool)) /\ [][Next]_vars

\* a hwdef.dat with something for every post-processing pass to do
PassLines ==
    << <<"S", "E", "R", "I", "A", "L", "_", "O", "R", "D", "E", "R", " ", "O", "T", "G", "1", " ", "U", "S", "A", "R", "T", "1">>,
       <<"P", "A", "1", "0", " ", "U", "S", "A", "R", "T", "1", "_", "R", "X", " ", "U", "S", "A", "R", "T", "1", " ", "N", "O", "D", "M", "A">>,
       <<"P", "A", "0", " ", "T", "I", "M", "1", "_", "C", "H", "1", " ", "T", "I", "M", "1", " ", "P", "W", "M", "(", "1", ")">>,
       <<"S", "P", "I", "D", "E", "V", " ", "i", "c", "m", "4", "2", "6", "8", "8", " ", "S", "P", "I", "1", " ", "D", "E", "V", "I", "D", "1">>,
       <<"P", "B", "7", " ", "T", "I", "M", "4", "_", "C", "H", "2", " ", "T", "I", "M", "4", " ", "R", "C", "I", "N", "I", "N", "T">>,
       <<"A", "P", "J", "_", "B", "O", "A", "R", "D", "_", "I", "D", " ", "A", "P", "_", "H", "W", "_", "A">> >>

\* the members of q at the places of the set at, in their order
RECURSIVE Pick(_, _)
Pick(q, at) ==
    IF q = <<>> THEN <<>>
    ELSE Pick(SubSeq(q, 1, Len(q) - 1), at)
         \o (IF Len(q) \in at THEN <<q[Len(q)]>> ELSE <<>>)

\* one board folder A whose hwdef.dat keeps all of the lines, or all but the
\* serial order, the timer pin or the RC input pin
PassWorlds ==
    {(PathA :> File(Pick(PassLines, (1..Len(PassLines)) \ gone))) : gone \in {{}, {1}, {3}, {5}}}

SpecPasses == InitOver(PassWorlds) /\ [][Next]_vars

\* a bootloader folder beside A and B
PathAbl == <<RootAbs, <<"A", "-", "b", "l">>, <<"h", "w", "d", "e", "f", ".", "d", "a", "t">>>>

\* a hwdef.dat with a serial order, one without, and one whose include raises
BatchFiles == {File(<<LineSerial>>), File(<<LineMcu>>), File(<<LineMcu, LineNul, LineSerial>>)}

\* the chain of includes with the serial order in its last file; B, which has
\* no serial order of its own, includes the third file of the chain
WorldChainSerial ==
    [p \in {<<RootAbs, <<"A">>, ChainNames[i]>> : i \in 1..Len(ChainNames)} |->
        LET i == CHOOSE k \in 1..Len(ChainNames) : p[3] = ChainNames[k]
        IN  File(IF i < Len(ChainNames)
                 THEN <<<<"i", "n", "c", "l", "u", "d", "e", " ">> \o ChainNames[i + 1], ChainLines[i]>>
                 ELSE <<LineSerial>>)]
    @@ (PathB :> File(<<LineMcu, <<"i", "n", "c", "l", "u", "d", "e", " ", ".", ".", "/", "A", "/", "c", "2", ".", "d", "a", "t">>>>))

\* any of the folders A, A-bl and B, each with any of the files
BatchWorlds ==
    UNION {[folders -> BatchFiles] : folders \in SUBSET {PathA, PathAbl, PathB}}
    \cup {WorldChainSerial}

SpecBatch == InitOver(BatchWorlds) /\ [][Next]_vars

----------------------------------------------------------------------------
(* Reference definitions the properties are stated with *)

\* the boards the calls of this parser instance returned, with their lines
Boards == {e \in log : e.board # None}

\* the board in the making has left the directive loop
PastDirectives == pc \in {"sensors", "rc_input", "uart_details", "board_id", "defaults"}

\* the flattened lines are in hand
PastResolve == PastDirectives \/ pc \in {"header", "process"}

\* the indices of the lines whose first token is kw
LinesWithKeyword(ls, kw) ==
    {i \in 1..Len(ls) : ~IsSkipped(ls[i]) /\ Split(ls[i])[1] = kw}

\* the tokens after the keyword of the last SERIAL_ORDER line, <<>> without one
FinalSerialOrder(ls) ==
    LET at == LinesWithKeyword(ls, <<"S", "E", "R", "I", "A", "L", "_", "O", "R", "D", "E", "R">>)
    IN  IF at = {} THEN <<>>
        ELSE Tail(Split(ls[CHOOSE i \in at : \A j \in at : j <= i]))

\* one channel per token, each with the position and the flags of its token
ChannelsMatch(uarts, tokens) ==
    /\ Len(uarts) = Len(tokens)
    /\ \A i \in 1..Len(uarts) :
          /\ uarts[i].serial_index = i - 1
          /\ uarts[i].uart_name = tokens[i]
          /\ uarts[i].is_empty <=> tokens[i] = <<"E", "M", "P", "T", "Y">>
          /\ uarts[i].is_usb <=> (SubSeq(tokens[i], 1, 3) = <<"O", "T", "G">> \/ tokens[i] = <<"U", "S", "B">>)

\* the lines of a file that are not include lines, stripped
OwnLines(raw) ==
    SelectSeq([i \in 1..Len(raw) |-> Strip(raw[i])],
              LAMBDA l : IsBlankOrComment(l) \/ ~IsIncludeLine(l))

\* the files the include lines of a file name, in order
IncludeTargets(path) ==
    LET raw == fs[path].lines
        inc == SelectSeq([i \in 1..Len(raw) |-> Strip(raw[i])],
                         LAMBDA l : ~IsBlankOrComment(l) /\ IsIncludeLine(l) /\ Len(Split1(l)) = 2)
    IN  [i \in 1..Len(inc) |-> ResolvePath(IncludeFile(path, Strip(Split1(inc[i])[2])))]

Readable(path) == path \in DOMAIN fs /\ fs[path].readable

RECURSIVE Concat(_)
Concat(seqs) == IF seqs = <<>> THEN <<>> ELSE Head(seqs) \o Concat(Tail(seqs))

\* the include graph below path is at most `levels` files deep (so it has no cycle)
RECURSIVE Within(_, _)
Within(path, levels) ==
    \/ ~Readable(path)
    \/ /\ levels > 0
       /\ \A i \in 1..Len(IncludeTargets(path)) : Within(IncludeTargets(path)[i], levels - 1)

\* no include below path lies deeper than the depth limit
Shallow(path) == Within(path, MaxIncludeDepth + 1)

\* the text of a file with every include line replaced, in place, by the text of
\* the file it names, expanded the same way (a file that cannot be read is empty)
RECURSIVE Expand(_, _)
Expand(path, levels) ==
    IF ~Readable(path) \/ levels = 0 THEN <<>>
    ELSE LET raw == fs[path].lines
         IN  Concat([i \in 1..Len(raw) |->
                LET l == Strip(raw[i])
                IN  IF IsBlankOrComment(l) \/ ~IsIncludeLine(l) THEN <<l>>
                    ELSE IF Len(Split1(l)) = 2
                         THEN Expand(ResolvePath(IncludeFile(path, Strip(Split1(l)[2]))), levels - 1)
                         ELSE <<>>])

\* a is a subsequence of b
RECURSIVE IsSubsequence(_, _)
IsSubsequence(a, b) ==
    IF a = <<>> THEN TRUE
    ELSE IF b = <<>> THEN FALSE
    ELSE IF Head(a) = Head(b) THEN IsSubsequence(Tail(a), Tail(b))
    ELSE IsSubsequence(a, Tail(b))

\* n copies of sequence q, one after the other
RECURSIVE Repeat(_, _)
Repeat(q, n) == IF n = 0 THEN <<>> ELSE q \o Repeat(q, n - 1)

\* the resolved path of a board folder's hwdef.dat
TopFile(name) == ResolvePath(HwdefFile(name))

\* how often x occurs in sequence q
Count(q, x) == Cardinality({i \in 1..Len(q) : q[i] = x})

----------------------------------------------------------------------------
(* Serial channels *)

\* C1: once the directive loop is over, the board has one UartChannel per token
\* of the last SERIAL_ORDER line: channel i carries index i, the token as its
\* name, is_empty exactly for EMPTY and is_usb exactly for OTG... and USB; the
\* UART enricher and the passes around it leave all of that as it is.
C1_SerialChannels ==
    /\ PastDirectives => ChannelsMatch(board.uarts, FinalSerialOrder(lines))
    /\ \A e \in Boards : ChannelsMatch(e.board[1].uarts, FinalSerialOrder(e.lines))

\* a returned board with two SERIAL_ORDER lines, whose last one names a port
\* twice, and whose channels the enricher has filled in
C1_Witness ==
    \E e \in Boards :
        /\ Cardinality(LinesWithKeyword(e.lines, <<"S", "E", "R", "I", "A", "L", "_", "O", "R", "D", "E", "R">>)) >= 2
        /\ \E i, j \in 1..Len(e.board[1].uarts) :
              /\ i < j
              /\ e.board[1].uarts[i].uart_name = e.board[1].uarts[j].uart_name
              /\ e.board[1].uarts[j].tx_dma
        /\ \E i \in 1..Len(e.board[1].uarts) : e.board[1].uarts[i].is_usb

----------------------------------------------------------------------------
(* Includes expanded in place *)

\* C2: resolve_lines replaces every include line, in place, by the resolved
\* lines of the file it names: whenever parse_board has flattened a hwdef.dat
\* whose includes stay within the depth limit, the lines are the file's text
\* with each include line expanded in place, blank and comment lines kept.
C2_ExpandedInPlace ==
    \A e \in Boards :
        Shallow(TopFile(e.folder)) => e.lines = Expand(TopFile(e.folder), MaxIncludeDepth + 1)

----------------------------------------------------------------------------
(* The depth limit *)

\* the file includes itself once and nothing else
IncludesOnlyItself(path) == Readable(path) /\ IncludeTargets(path) = <<path>>

\* the lines of a file before and after its first include line, stripped
BeforeInclude(raw) ==
    LET l == [i \in 1..Len(raw) |-> Strip(raw[i])]
        at == CHOOSE i \in 1..Len(raw) :
                 /\ ~IsBlankOrComment(l[i]) /\ IsIncludeLine(l[i])
                 /\ \A j \in 1..(i - 1) : IsBlankOrComment(l[j]) \/ ~IsIncludeLine(l[j])
    IN  SubSeq(l, 1, at - 1)
AfterInclude(raw) ==
    LET l == [i \in 1..Len(raw) |-> Strip(raw[i])]
        at == CHOOSE i \in 1..Len(raw) :
                 /\ ~IsBlankOrComment(l[i]) /\ IsIncludeLine(l[i])
                 /\ \A j \in 1..(i - 1) : IsBlankOrComment(l[j]) \/ ~IsIncludeLine(l[j])
    IN  SubSeq(l, at + 1, Len(raw))

\* every file below path, path included, has at most one include line
RECURSIVE SingleIncludes(_, _)
SingleIncludes(path, levels) ==
    \/ ~Readable(path)
    \/ levels = 0
    \/ /\ Len(IncludeTargets(path)) <= 1
       /\ \A i \in 1..Len(IncludeTargets(path)) : SingleIncludes(IncludeTargets(path)[i], levels - 1)

\* C3: the include depth is capped at 10. No file is read at a depth above 10
\* (a call at depth 11 is answered with no lines); every file flattened at depth
\* 0 to 10 still gives all of its own lines, in order, to its result; a chain
\* of includes, flattened by a parser with an empty cache, comes out as the
\* text of its files at depth 0 to 10 with nothing in the place of the include
\* at depth 11; and a hwdef.dat that includes itself comes out as 11 copies of
\* its lines before the include followed by 11 copies of its lines after it.
C3_DepthCapped ==
    /\ \A i \in 1..Len(stack) : stack[i].depth = i - 1 /\ stack[i].depth <= 10
    /\ call # NoCall => call.depth = Len(stack) /\ call.depth <= 11
    /\ \A k \in DOMAIN include_cache :
          IsSubsequence(OwnLines(fs[ResolvePath(k)].lines), include_cache[k])
    /\ \A e \in Boards :
          IsSubsequence(OwnLines(fs[TopFile(e.folder)].lines), e.lines)
    /\ \A e \in fresh_log :
          e.board # None /\ SingleIncludes(TopFile(e.folder), MaxIncludeDepth + 1)
          => e.lines = Expand(TopFile(e.folder), MaxIncludeDepth + 1)
    /\ \A e \in fresh_log :
          e.board # None /\ IncludesOnlyItself(TopFile(e.folder))
          => e.lines = Repeat(BeforeInclude(fs[TopFile(e.folder)].lines), 11)
                       \o Repeat(AfterInclude(fs[TopFile(e.folder)].lines), 11)

\* a self-including hwdef.dat was flattened from an empty cache, and the lines
\* before and after its include line are in the result
C3_Witness ==
    \E e \in fresh_log :
        /\ e.board # None
        /\ IncludesOnlyItself(TopFile(e.folder))
        /\ BeforeInclude(fs[TopFile(e.folder)].lines) # <<>>
        /\ AfterInclude(fs[TopFile(e.folder)].lines) # <<>>
        /\ Len(e.lines) > Len(OwnLines(fs[TopFile(e.folder)].lines))

----------------------------------------------------------------------------
(* Termination *)

\* C4: resolve_lines terminates: whenever a flattening is under way, over any
\* of the include graphs (self-includes, cycles, repeated includes, chains
\* deeper than the limit), it comes to its end.
C4_Terminates == Resolving ~> ~Resolving

\* a flattening is 11 frames deep in a cycle of includes
C4_Witness == Resolving /\ Len(stack) = 11 /\ stack[1].filepath = stack[11].filepath

----------------------------------------------------------------------------
(* Idempotence *)

\* C5: on one parser instance, with the files unchanged, every call that
\* flattens the same starting file gets the same lines as the calls before it.
C5_Idempotent ==
    /\ \A e1, e2 \in log : e1.folder = e2.folder => e1.lines = e2.lines
    /\ PastResolve => \A e \in log : e.folder = board.folder_name => e.lines = lines

\* a second call on a starting file was answered from the cache, with lines
\* that came from more than one file
C5_Witness ==
    /\ pc = "header"
    /\ CacheKey(HwdefFile(board.folder_name)) \in DOMAIN include_cache
    /\ \E e \in log : e.folder = board.folder_name /\ e.lines = lines
    /\ Len(lines) > Len(OwnLines(fs[TopFile(board.folder_name)].lines))

----------------------------------------------------------------------------
(* Independence of the boards parsed before *)

\* C6: the lines and the record parse_board returns for a board folder do not
\* depend on what the parser parsed before: they are those a parser with an
\* empty cache returns for it.
C6_IndependentOfHistory ==
    \A e \in log : \A f \in fresh_log :
        e.folder = f.folder => e.lines = f.lines /\ e.board = f.board

----------------------------------------------------------------------------
(* Reads per file *)

\* no file includes, directly or through other files, itself
NoIncludeCycle == \A p \in DOMAIN fs : Within(p, Cardinality(DOMAIN fs))

\* C7: within one parser instance a file is read and flattened at most once,
\* however many include lines name it (stated for files without include
\* cycles: a file inside a cycle is entered again at every round of the cycle).
C7_ReadAtMostOnce == NoIncludeCycle => \A p \in DOMAIN fs : read_count[p] <= 1

----------------------------------------------------------------------------
(* Missing and unreadable includes *)

\* every include line of the file names a file that is missing or unreadable
AllIncludesFail(path) ==
    /\ Readable(path)
    /\ IncludeTargets(path) # <<>>
    /\ \A i \in 1..Len(IncludeTargets(path)) : ~Readable(IncludeTargets(path)[i])

\* C8: an include of a missing or unreadable file is not fatal: it adds no
\* lines, the including file's own lines before and after it are returned, the
\* failed path never becomes a key of the cache, and the board is returned.
C8_MissingIncludeHarmless ==
    /\ \A e \in Boards :
          AllIncludesFail(TopFile(e.folder)) => e.lines = OwnLines(fs[TopFile(e.folder)].lines)
    /\ \A k \in DOMAIN include_cache : Readable(ResolvePath(k))

\* a board came back whose hwdef.dat includes a missing and an unreadable file,
\* with lines before and after those includes
C8_Witness ==
    \E e \in Boards :
        /\ AllIncludesFail(TopFile(e.folder))
        /\ \E i, j \in 1..Len(IncludeTargets(TopFile(e.folder))) :
              /\ IncludeTargets(TopFile(e.folder))[i] \notin DOMAIN fs
              /\ IncludeTargets(TopFile(e.folder))[j] \in DOMAIN fs
        /\ Len(e.lines) >= 2
        /\ ~IsIncludeLine(Strip(fs[TopFile(e.folder)].lines[1]))
        /\ ~IsIncludeLine(Strip(fs[TopFile(e.folder)].lines[Len(fs[TopFile(e.folder)].lines) - 2]))

\* the line the running resolve_lines call is at includes a file that is
\* missing or cannot be read
AtFailingInclude ==
    /\ InLoop
    /\ ~IsBlankOrComment(Stripped) /\ IsIncludeLine(Stripped)
    /\ Len(Split1(Stripped)) = 2
    /\ ~Readable(ResolvePath(IncludeFile(Top.filepath, Strip(Split1(Stripped)[2]))))

\* C8: an include of a missing or unreadable file is not fatal: no exception
\* leaves resolve_lines on it, neither to main's loop nor to another caller.
C8_NoExceptionReachesCaller ==
    [][AtFailingInclude => pc' # "raised" /\ batch'.errors = batch.errors]_vars

----------------------------------------------------------------------------
(* Output groups *)

\* the pins and the groups agree: one group per timer that has a pin, none of
\* them empty, and each group lists the numbers of exactly the pins of its timer
GroupsPartitionPins(pins, groups) ==
    /\ \A g, h \in 1..Len(groups) : groups[g].timer = groups[h].timer => g = h
    /\ {groups[g].timer : g \in 1..Len(groups)} = {pins[i].timer : i \in 1..Len(pins)}
    /\ \A g \in 1..Len(groups) :
          /\ groups[g].outputs # <<>>
          /\ Len(groups[g].outputs)
                = Cardinality({i \in 1..Len(pins) : pins[i].timer = groups[g].timer})
          /\ \A i \in 1..Len(pins) :
                pins[i].timer = groups[g].timer
                => Count(groups[g].outputs, pins[i].number)
                      = Cardinality({j \in 1..Len(pins) : /\ pins[j].timer = pins[i].timer
                                                          /\ pins[j].number = pins[i].number})

\* C9: after the output group synthesizer every OutputPin is in exactly one
\* OutputGroup, the group of its own timer; there is exactly one group per
\* timer name that has a pin, and no group is empty.
C9_GroupsPartition ==
    /\ PastDirectives => GroupsPartitionPins(board.pwm_outputs, board.output_groups)
    /\ \A e \in Boards : GroupsPartitionPins(e.board[1].pwm_outputs, e.board[1].output_groups)

\* a returned board with pins on two timers
C9_Witness ==
    \E e \in Boards :
        /\ Len(e.board[1].pwm_outputs) >= 2
        /\ Len(e.board[1].output_groups) >= 2

----------------------------------------------------------------------------
(* Output numbers *)

\* all output numbers listed by the groups, one group after the other
GroupedNumbers(groups) == Concat([g \in 1..Len(groups) |-> groups[g].outputs])

\* C10: the output numbers of a board are unique and 1-based, so that no
\* number is listed twice by the groups.
C10_NumbersUnique ==
    \A e \in Boards :
        LET pins == e.board[1].pwm_outputs
            listed == GroupedNumbers(e.board[1].output_groups)
        IN  /\ \A i, j \in 1..Len(pins) : pins[i].number = pins[j].number => i = j
            /\ \A i \in 1..Len(pins) : pins[i].number >= 1
            /\ \A i, j \in 1..Len(listed) : listed[i] = listed[j] => i = j

----------------------------------------------------------------------------
(* Group capabilities *)

\* the number a name ends with: the value of its longest suffix of digits
NumericSuffix(name) ==
    LET from == CHOOSE i \in 1..(Len(name) + 1) :
                   /\ \A j \in i..Len(name) : IsDigit(name[j])
                   /\ i > 1 => ~IsDigit(name[i - 1])
    IN  IF from > Len(name) THEN None
        ELSE Some(DigitsValue(SubSeq(name, from, Len(name)), 0))

Has(caps, cap) == \E i \in 1..Len(caps) : caps[i] = cap

\* the capabilities of the groups are those the timers and the pins call for
CapabilitiesMatch(pins, groups) ==
    \A g \in 1..Len(groups) :
        LET caps == groups[g].capabilities
            suffix == NumericSuffix(groups[g].timer)
        IN  /\ Has(caps, "PWM")
            /\ Has(caps, "DShot") <=> (suffix # None /\ suffix[1] <= 8)
            /\ suffix # None /\ suffix[1] >= 9 => ~Has(caps, "DShot")
            /\ Has(caps, "BDShot")
                  <=> /\ Has(caps, "DShot")
                      /\ \E i \in 1..Len(pins) : pins[i].timer = groups[g].timer /\ pins[i].bidir

----------------------------------------------------------------------------
(* The raw-directive table *)

\* the line is `define <NAME> <value...>`
IsDefineLine(line) ==
    ~IsSkipped(line) /\ Len(Split(line)) >= 3 /\ Split(line)[1] = <<"d", "e", "f", "i", "n", "e">>

\* the name and the literal value text of a define line
DefineName(line) == Split(line)[2]
DefineValue(line) == Split1(Split1(line)[2])[2]

\* C12: for every define line of the flattened source (the last one of its
\* name, where a name is defined more than once) the raw-directive table maps
\* the name to the literal value text of the line, unchanged.
C12_DefinesVerbatim ==
    \A e \in Boards :
        \A i \in 1..Len(e.lines) :
            /\ IsDefineLine(e.lines[i])
            /\ \A j \in (i + 1)..Len(e.lines) :
                  IsDefineLine(e.lines[j]) => DefineName(e.lines[j]) # DefineName(e.lines[i])
            => /\ DefineName(e.lines[i]) \in DOMAIN e.board[1].defines
               /\ e.board[1].defines[DefineName(e.lines[i])] = DefineValue(e.lines[i])

----------------------------------------------------------------------------
(* Sensor detection *)

\* C13: sensor detection is deterministic: two runs of the detector over the same
\* SpiDevice list give the same SensorSet, also when a device name holds two
\* known identifiers of one category.
C13_DetectionDeterministic ==
    \A e1, e2 \in fresh_log :
        /\ e1.board # None /\ e2.board # None
        /\ e1.board[1].spi_devices = e2.board[1].spi_devices
        => e1.board[1].sensors = e2.board[1].sensors

\* the upper-cased names of a chip collection
UpperNames(chips) == {Upper(chips[i]) : i \in 1..Len(chips)}

\* the devices whose name holds an identifier of the collection
DevicesNaming(devs, chips) ==
    {d \in 1..Len(devs) : \E i \in 1..Len(chips) : Contains(Lower(devs[d].name), chips[i])}

\* a category list without duplicates, of upper-cased known identifiers, with at
\* most one entry per device that names a chip of the category
CategoryListOk(list, devs, chips) ==
    /\ \A i, j \in 1..Len(list) : list[i] = list[j] => i = j
    /\ \A i \in 1..Len(list) : list[i] \in UpperNames(chips)
    /\ Len(list) <= Cardinality(DevicesNaming(devs, chips))
    /\ \A i \in 1..Len(list) :
          \E d \in DevicesNaming(devs, chips) :
             \E c \in 1..Len(chips) : list[i] = Upper(chips[c]) /\ Contains(Lower(devs[d].name), chips[c])

\* C14: after sensor detection the IMU, barometer and compass lists hold no chip
\* name twice, every entry is the upper-cased form of a known identifier, and a
\* SpiDevice adds at most one entry to each list.
C14_CategoryLists ==
    pc = "rc_input"
    => /\ CategoryListOk(board.sensors.imu, board.spi_devices, KNOWN_IMU_CHIPS)
       /\ CategoryListOk(board.sensors.barometer, board.spi_devices, KNOWN_BARO_CHIPS)
       /\ CategoryListOk(board.sensors.compass, board.spi_devices, KNOWN_COMPASS_CHIPS)

\* detection has run over two devices that name the same IMU chip, listed once
C14_Witness ==
    /\ pc = "rc_input"
    /\ Cardinality(DevicesNaming(board.spi_devices, KNOWN_IMU_CHIPS)) = 2
    /\ board.sensors.imu = <<<<"I", "C", "M", "4", "2", "6", "8", "8">>>>

\* the line is `SPIDEV <name> <bus> ...`
IsSpidevLine(line) ==
    ~IsSkipped(line) /\ Len(Split(line)) >= 3 /\ Split(line)[1] = <<"S", "P", "I", "D", "E", "V">>

\* C15: every `SPIDEV <name> <bus>` line appends one SpiDevice with the
\* lower-cased name, with or without the devid and chip-select tokens, so that a
\* SPIDEV line that names a known IMU chip puts the chip's upper-cased name in
\* SensorSet.imu.
C15_SpidevAppended ==
    \A e \in Boards :
        LET at == {i \in 1..Len(e.lines) : IsSpidevLine(e.lines[i])}
        IN  /\ Len(e.board[1].spi_devices) = Cardinality(at)
            /\ \A i \in at :
                  /\ \E d \in 1..Len(e.board[1].spi_devices) :
                        /\ e.board[1].spi_devices[d].name = Lower(Split(e.lines[i])[2])
                        /\ e.board[1].spi_devices[d].bus = Split(e.lines[i])[3]
                  /\ \A c \in 1..Len(KNOWN_IMU_CHIPS) :
                        Contains(Lower(Split(e.lines[i])[2]), KNOWN_IMU_CHIPS[c])
                        => \E k \in 1..Len(e.board[1].sensors.imu) :
                           \E c2 \in 1..Len(KNOWN_IMU_CHIPS) :
                              /\ Contains(Lower(Split(e.lines[i])[2]), KNOWN_IMU_CHIPS[c2])
                              /\ e.board[1].sensors.imu[k] = Upper(KNOWN_IMU_CHIPS[c2])

----------------------------------------------------------------------------
(* The RC input *)

\* the lines of the flattened sequence that contain RCIN
RcinLines(ls) == {i \in 1..Len(ls) : ~IsSkipped(ls[i]) /\ Contains(ls[i], <<"R", "C", "I", "N">>)}

\* the first of a non-empty set of line numbers
FirstOf(at) == CHOOSE i \in at : \A j \in at : i <= j

\* the line names a serial port
NamesSerial(line) == Contains(line, <<"U", "S", "A", "R", "T">>) \/ Contains(line, <<"U", "A", "R", "T">>)

\* C16: the RC input is decided by the first line that contains RCIN: timer-based
\* with pin = first token and timer = third token if the line contains TIM,
\* otherwise UART-based with pin = first token if it contains USART or UART; TIM
\* wins over UART on the same line, and no later line influences the pin, the
\* timer or the type.
C16_FirstRcinDecides ==
    pc = "uart_details" /\ RcinLines(lines) # {}
    => LET line == lines[FirstOf(RcinLines(lines))]
           parts == Split(line)
           rc == board.rc_input
       IN  IF Contains(line, <<"T", "I", "M">>)
           THEN /\ rc.input_type = <<"t", "i", "m", "e", "r">>
                /\ rc.pin = parts[1]
                /\ rc.timer = IF Len(parts) >= 3 THEN parts[3] ELSE <<>>
           ELSE IF NamesSerial(line)
           THEN rc.input_type = <<"u", "a", "r", "t">> /\ rc.pin = parts[1] /\ rc.timer = <<>>
           ELSE rc.input_type \in {<<>>, <<"u", "a", "r", "t">>} /\ rc.pin = <<>> /\ rc.timer = <<>>

\* some line is classified by the scan
SomeRcinClassified(ls) ==
    \E i \in 1..Len(ls) : ~IsSkipped(ls[i]) /\ (IsTimerRcin(ls[i]) \/ IsUartRcin(ls[i]))

\* the first classified line is a timer input
TimerRcinFirst(ls) ==
    \E i \in 1..Len(ls) :
        /\ ~IsSkipped(ls[i]) /\ IsTimerRcin(ls[i])
        /\ \A j \in 1..(i - 1) : IsSkipped(ls[j]) \/ ~(IsTimerRcin(ls[j]) \/ IsUartRcin(ls[j]))

\* C17: the define HAL_SERIAL_INPUT_ENABLED = 1 changes the RC-input
\* classification only when no RCIN line was classified: a board with a
\* timer-based RCIN line stays timer-based, and when the override applies the
\* result is UART-based with empty pin and timer.
C17_OverrideOnlyUnclassified ==
    pc = "uart_details" /\ DictGet(board.defines, <<"H", "A", "L", "_", "S", "E", "R", "I", "A", "L", "_", "I", "N", "P", "U", "T", "_", "E", "N", "A", "B", "L", "E", "D">>) = <<"1">>
    => /\ TimerRcinFirst(lines) => board.rc_input.input_type = <<"t", "i", "m", "e", "r">>
       /\ ~SomeRcinClassified(lines)
          => board.rc_input = [RcInput EXCEPT !.input_type = <<"u", "a", "r", "t">>]

----------------------------------------------------------------------------
(* Serial channels after the enrichment *)

\* the tokens of the lines that contain NODMA
NodmaTokens(ls) ==
    UNION {{Split(ls[i])[k] : k \in 1..Len(Split(ls[i]))} :
              i \in {j \in 1..Len(ls) : ~IsSkipped(ls[j]) /\ Contains(ls[j], <<"N", "O", "D", "M", "A">>)}}

\* the channel is neither USB nor an empty slot
IsHardwareChannel(uart) == ~uart.is_usb /\ ~uart.is_empty

\* C18: after the enrichment every channel that is neither USB nor EMPTY has
\* tx_dma = true and has rx_dma = true exactly when its hardware name is not in
\* the NODMA set; every USB or EMPTY channel has both false; a NODMA marker
\* never turns tx_dma off.
C18_DmaFlags ==
    pc = "board_id"
    => \A i \in 1..Len(board.uarts) :
          LET uart == board.uarts[i]
          IN  IF IsHardwareChannel(uart)
              THEN uart.tx_dma /\ (uart.rx_dma <=> uart.uart_name \notin NodmaUarts(lines))
              ELSE ~uart.tx_dma /\ ~uart.rx_dma

\* the enrichment has run over a channel whose name is in the NODMA set
C18_Witness ==
    /\ pc = "board_id"
    /\ \E i \in 1..Len(board.uarts) :
          /\ IsHardwareChannel(board.uarts[i])
          /\ board.uarts[i].uart_name \in NodmaUarts(lines)
          /\ board.uarts[i].tx_dma /\ ~board.uarts[i].rx_dma

\* the name is of the family USART, UART or LPUART
IsSerialFamily(name) ==
    \E family \in {<<"U", "S", "A", "R", "T">>, <<"U", "A", "R", "T">>, <<"L", "P", "U", "A", "R", "T">>} : StartsWith(name, family)

\* C19: the NODMA set holds every name of the families USART, UART and LPUART
\* that is a token of a line containing NODMA, so a channel of any of the three
\* families that is neither USB nor EMPTY and is named on a NODMA line ends
\* with rx_dma = false.
C19_NodmaFamilies ==
    pc = "board_id"
    => /\ \A p \in NodmaTokens(lines) : IsSerialFamily(p) => p \in NodmaUarts(lines)
       /\ \A i \in 1..Len(board.uarts) :
             /\ IsHardwareChannel(board.uarts[i])
             /\ IsSerialFamily(board.uarts[i].uart_name)
             /\ board.uarts[i].uart_name \in NodmaTokens(lines)
             => ~board.uarts[i].rx_dma

\* some line declares the pin function func
Declares(ls, func) ==
    \E i \in 1..Len(ls) : ~IsSkipped(ls[i]) /\ Len(Split(ls[i])) >= 2 /\ Split(ls[i])[2] = func

\* the number of the first SERIAL_ORDER line
SerialOrderAt(ls) == FirstOf({i \in 1..Len(ls) : StartsWith(ls[i], <<"S", "E", "R", "I", "A", "L", "_", "O", "R", "D", "E", "R">>)})

\* C20: for every channel whose name has a <name>_TX or <name>_RX line, has_tx is
\* true exactly when some line declares <name>_TX and has_rx exactly when some
\* line declares <name>_RX, wherever those lines stand relative to SERIAL_ORDER.
C20_TxRxDeclared ==
    pc = "board_id"
    => \A i \in 1..Len(board.uarts) :
          LET uart == board.uarts[i]
              tx == Declares(lines, uart.uart_name \o <<"_", "T", "X">>)
              rx == Declares(lines, uart.uart_name \o <<"_", "R", "X">>)
          IN  tx \/ rx => (uart.has_tx <=> tx) /\ (uart.has_rx <=> rx)

\* a channel whose only pin line, a TX line, stands before SERIAL_ORDER
C20_Witness ==
    /\ pc = "board_id"
    /\ board.uarts # <<>>
    /\ \E i \in 1..Len(board.uarts) :
          /\ \E k \in 1..(SerialOrderAt(lines) - 1) :
                Split(lines[k])[2] = board.uarts[i].uart_name \o <<"_", "T", "X">>
          /\ ~Declares(lines, board.uarts[i].uart_name \o <<"_", "R", "X">>)
          /\ board.uarts[i].has_tx /\ ~board.uarts[i].has_rx

----------------------------------------------------------------------------
(* The board ID *)

\* the tokens the APJ_BOARD_ID lines give, in the order of the lines
BoardIdTokens(ls) ==
    LET at == SelectSeq(ls, LAMBDA line : ~IsSkipped(line) /\ Len(Split(line)) >= 2
                                          /\ Split(line)[1] = <<"A", "P", "J", "_", "B", "O", "A", "R", "D", "_", "I", "D">>)
    IN  [i \in 1..Len(at) |-> Split(at[i])[2]]

\* the ID a token stands for: the table's value, else its integer value, else unset
IdOfToken(t) ==
    IF t \in DOMAIN board_ids THEN Some(board_ids[t])
    ELSE IF IsIntLiteral(t) THEN Some(IntValue(t))
    ELSE None

\* C21: for a board with one APJ_BOARD_ID token t the numeric board ID is the
\* table's value for t when t is a key of the table, also when t reads as an
\* integer; otherwise the integer value of t when it reads as one; otherwise
\* unset.
C21_TableFirst ==
    pc = "defaults" /\ Len(BoardIdTokens(lines)) = 1
    => board.apj_board_id = IdOfToken(BoardIdTokens(lines)[1])

\* C29: the numeric board ID and the symbolic name come from the same
\* APJ_BOARD_ID line, the last one: a numeric ID that is set is the integer
\* value or the table value of the final name, never a value left by an earlier
\* line with another token.
C29_IdOfLastName ==
    pc = "defaults" /\ BoardIdTokens(lines) # <<>>
    => LET t == BoardIdTokens(lines)[Len(BoardIdTokens(lines))]
       IN  /\ board.apj_board_id_name = t
           /\ board.apj_board_id # None
              => \/ IsIntLiteral(t) /\ board.apj_board_id = Some(IntValue(t))
                 \/ t \in DOMAIN board_ids /\ board.apj_board_id = Some(board_ids[t])

----------------------------------------------------------------------------
(* The CAN-interface count and undef *)

\* the directive loop is at a line it hands to a handler
AtDirective == pc = "process" /\ li <= Len(lines) /\ ~IsSkipped(lines[li])

\* the first token of a line
Keyword(line) == Split(line)[1]

\* the first token starts with CAN and contains _RX or _TX
StartsAsCanPin(keyword) ==
    StartsWith(keyword, <<"C", "A", "N">>) /\ (Contains(keyword, <<"_", "R", "X">>) \/ Contains(keyword, <<"_", "T", "X">>))

\* the name an undef line gives
UndefName(line) == Strip(Split1(line)[2])

\* an undef line before line number i names the keyword
UndefBefore(ls, i, keyword) ==
    \E j \in 1..(i - 1) : ~IsSkipped(ls[j]) /\ IsUndefLine(ls[j]) /\ UndefName(ls[j]) = keyword

\* C22: the CAN-keyword rule fires only for a line whose first token starts with
\* CAN and contains _RX or _TX: such a line sets the count to the maximum of
\* its value and the digit in the keyword, and a line whose first token does
\* not start with CAN never changes the count through this rule.
C22_OnlyCanKeywords ==
    [][AtDirective /\ ~IsUndefLine(lines[li])
       => LET keyword == Keyword(lines[li])
              can_num == SearchDigit(keyword, <<"C", "A", "N">>)
          IN  /\ StartsAsCanPin(keyword) /\ can_num # None /\ keyword \notin undefs
                 => board'.can_interfaces = Max(board.can_interfaces, IntValue(can_num[1]))
              /\ ~StartsWith(keyword, <<"C", "A", "N">>) /\ keyword # <<"d", "e", "f", "i", "n", "e">>
                 => board'.can_interfaces = board.can_interfaces]_vars

\* _process_line returns on the line the directive loop is at
AtReturningDirective ==
    /\ AtDirective
    /\ ProcessLine(board, Split(lines[li]), lines[li], undefs) # ValueError

Family(line) ==
    IF IsUndefLine(line) THEN <<"u", "n", "d", "e", "f">>
    ELSE IF Contains(Keyword(line), <<"C", "A", "N">>) THEN <<"C", "A", "N">>
    ELSE Keyword(line)

\* C26: directive effects are order-insensitive across families: two lines of
\* different families (a define of HAL_NUM_CAN_IFACES and a CAN pin keyword
\* line, a define and a pin line) give the same record in either order; only
\* the undef-before-CAN relation depends on order.
C26_OrderInsensitive ==
    /\ pc = "process" /\ li < Len(lines)
    /\ ~IsSkipped(lines[li]) /\ ~IsSkipped(lines[li + 1])
    /\ ~IsUndefLine(lines[li]) /\ ~IsUndefLine(lines[li + 1])
    /\ Family(lines[li]) # Family(lines[li + 1])
    => LET l1 == lines[li]
           l2 == lines[li + 1]
       IN  ProcessLine(ProcessLine(board, Split(l1), l1, undefs), Split(l2), l2, undefs)
           = ProcessLine(ProcessLine(board, Split(l2), l2, undefs), Split(l1), l1, undefs)

----------------------------------------------------------------------------
(* Malformed directives *)

\* the values the lines give for a keyword (second token of `<keyword> <value>`)
ValuesOf(ls, keyword) ==
    {Split(ls[i])[2] : i \in {j \in 1..Len(ls) : ~IsSkipped(ls[j]) /\ Len(Split(ls[j])) >= 2
                                                  /\ Keyword(ls[j]) = keyword}}

\* the values the lines define a name with
DefinedAs(ls, name) ==
    {JoinSpace(SubSeq(Split(ls[i]), 3, Len(Split(ls[i])))) :
        i \in {j \in 1..Len(ls) : ~IsSkipped(ls[j]) /\ Len(Split(ls[j])) >= 3
                                   /\ Keyword(ls[j]) = <<"d", "e", "f", "i", "n", "e">> /\ Split(ls[j])[2] = name}}

\* C25: no directive line aborts the parse: _process_line returns a record for
\* every token sequence, a FLASH_SIZE_KB, OSCILLATOR_HZ, battery-pin,
\* battery-scale or CAN-count directive whose value is no number leaves its
\* field as it was, at its default if nothing else set it, and all following
\* lines are still processed.
C25_NoLineAborts ==
    /\ AtDirective /\ ~IsUndefLine(lines[li])
       => LET line == lines[li]
              parts == Split(line)
              after == ProcessLine(board, parts, line, undefs)
          IN  /\ DOMAIN after = DOMAIN board
              /\ Len(parts) >= 2 /\ ~IsIntLiteral(parts[2])
                 /\ Keyword(line) \in {<<"F", "L", "A", "S", "H", "_", "S", "I", "Z", "E", "_", "K", "B">>, <<"O", "S", "C", "I", "L", "L", "A", "T", "O", "R", "_", "H", "Z">>}
                 => after = board
              /\ Len(parts) >= 3 /\ Keyword(line) = <<"d", "e", "f", "i", "n", "e">>
                 /\ ~IsIntLiteral(parts[3]) /\ ~IsFloatLiteral(parts[3])
                 => after.battery = board.battery /\ after.can_interfaces = board.can_interfaces
    /\ PastDirectives
       => /\ li = Len(lines) + 1
          /\ (\A v \in ValuesOf(lines, <<"F", "L", "A", "S", "H", "_", "S", "I", "Z", "E", "_", "K", "B">>) : ~IsIntLiteral(v)) => board.flash_kb = 0
          /\ (\A v \in ValuesOf(lines, <<"O", "S", "C", "I", "L", "L", "A", "T", "O", "R", "_", "H", "Z">>) : ~IsIntLiteral(v))
             => board.oscillator_hz = 0
          /\ (\A v \in DefinedAs(lines, <<"H", "A", "L", "_", "B", "A", "T", "T", "_", "V", "O", "L", "T", "_", "P", "I", "N">>) : ~IsIntLiteral(v))
             => board.battery.volt_pin = None
          /\ (\A v \in DefinedAs(lines, <<"H", "A", "L", "_", "B", "A", "T", "T", "_", "C", "U", "R", "R", "_", "S", "C", "A", "L", "E">>) : ~IsFloatLiteral(v))
             => board.battery.amp_per_volt = None

----------------------------------------------------------------------------
(* The included-file list *)

\* the file has a line that starts with include
HasIncludeLine(path) ==
    Readable(path) /\ \E i \in 1..Len(fs[path].lines) : IsIncludeLine(Strip(fs[path].lines[i]))

----------------------------------------------------------------------------
(* Channels without pin lines *)

\* no line declares a TX or an RX pin of the name
NoPinLine(ls, name) == ~Declares(ls, name \o <<"_", "T", "X">>) /\ ~Declares(ls, name \o <<"_", "R", "X">>)

\* C30: the enrichment leaves has_tx and has_rx at their initial value true for
\* every channel whose name has no TX or RX pin line; this includes EMPTY slots
\* and USB channels, which end with has_tx = has_rx = true.
C30_UnseenKeepTrue ==
    pc = "board_id"
    => \A i \in 1..Len(board.uarts) :
          /\ NoPinLine(lines, board.uarts[i].uart_name)
             => board.uarts[i].has_tx /\ board.uarts[i].has_rx
          /\ board.uarts[i].is_usb \/ board.uarts[i].is_empty
             => board.uarts[i].has_tx /\ board.uarts[i].has_rx

\* the enrichment has run over an EMPTY slot, a USB channel and a serial port
\* without pin lines, next to a port with a pin line
C30_Witness ==
    /\ pc = "board_id"
    /\ \E i, j, k, m \in 1..Len(board.uarts) :
          /\ board.uarts[i].is_empty /\ board.uarts[i].has_tx /\ board.uarts[i].has_rx
          /\ board.uarts[j].is_usb /\ board.uarts[j].has_tx /\ board.uarts[j].has_rx
          /\ IsHardwareChannel(board.uarts[k]) /\ NoPinLine(lines, board.uarts[k].uart_name)
          /\ board.uarts[k].has_tx /\ board.uarts[k].has_rx
          /\ ~NoPinLine(lines, board.uarts[m].uart_name) /\ ~board.uarts[m].has_rx

----------------------------------------------------------------------------
(* The post-processing passes *)

\* the passes in the order parse_board calls them
PassNames == <<"output_groups", "sensors", "rc_input", "uart_details", "board_id">>

\* the record after one pass
RunPass(name, b, ls, order) ==
    CASE name = "output_groups" -> [b EXCEPT !.output_groups = @ \o OutputGroups(b.pwm_outputs)]
      [] name = "sensors" -> [b EXCEPT !.sensors = DetectSensorsFrom(@, b.spi_devices, order)]
      [] name = "rc_input" -> [b EXCEPT !.rc_input = DetectRcInput(b, ls)]
      [] name = "uart_details" -> [b EXCEPT !.uarts = ParseUartDetails(@, ls)]
      [] name = "board_id" -> [b EXCEPT !.apj_board_id = ResolveBoardId(b)]

\* the field a pass writes
WrittenBy(name) ==
    CASE name = "output_groups" -> "output_groups"
      [] name = "sensors" -> "sensors"
      [] name = "rc_input" -> "rc_input"
      [] name = "uart_details" -> "uarts"
      [] name = "board_id" -> "apj_board_id"

\* the record each pass leaves when it runs on b, in the order of PassNames
PassResults(b, ls, order) ==
    << RunPass(PassNames[1], b, ls, order), RunPass(PassNames[2], b, ls, order),
       RunPass(PassNames[3], b, ls, order), RunPass(PassNames[4], b, ls, order),
       RunPass(PassNames[5], b, ls, order) >>

\* b with the fields of the passes in done set to what outs has for them
RECURSIVE WithPasses(_, _, _, _)
WithPasses(done, k, b, outs) ==
    IF k > Len(PassNames) THEN b
    ELSE IF k \in done
    THEN [WithPasses(done, k + 1, b, outs) EXCEPT
             ![WrittenBy(PassNames[k])] = outs[k][WrittenBy(PassNames[k])]]
    ELSE WithPasses(done, k + 1, b, outs)

\* the passes in the order turn gives them, from the k-th of turn on, each on
\* the record the pass before it left, take b to final
RECURSIVE RunPasses(_, _, _, _, _, _)
RunPasses(turn, k, b, ls, order, final) ==
    IF k > Len(PassNames) THEN b = final
    ELSE \E next \in {RunPass(PassNames[turn[k]], b, ls, order)} :
            RunPasses(turn, k + 1, next, ls, order, final)

\* the order parse_board runs the passes in
CodeOrder == [k \in 1..Len(PassNames) |-> k]

\* the directive loop is through and no pass has run
BeforePasses == pc = "process" /\ li > Len(lines)

\* the iteration orders the chip sets can still take
OrdersLeft == {order \in ChipOrders : chip_order \in {"unset", order}}

\* C27: the post-processing passes are independent of each other: each reads
\* only the directive processor's record and the flattened lines, they write
\* disjoint parts of the record, and running them in any order gives the same
\* final record. What a pass writes is the same after any set of the other
\* passes as on the directive processor's record, so every order ends in the
\* record the order of parse_board ends in.
C27_PassesIndependent ==
    BeforePasses
    => \A order \in OrdersLeft :
          \A outs \in {PassResults(board, lines, order)} :
             /\ \A k \in 1..Len(PassNames) :
                   \A f \in DOMAIN board \ {WrittenBy(PassNames[k])} : outs[k][f] = board[f]
             /\ \A j, k \in 1..Len(PassNames) :
                   j # k => WrittenBy(PassNames[j]) # WrittenBy(PassNames[k])
             /\ \A final \in {WithPasses(1..Len(PassNames), 1, board, outs)} :
                   \A turn \in Permutations(1..Len(PassNames)) :
                      RunPasses(turn, 1, board, lines, order, final)

\* a record on which the group, sensor, RC input and serial passes each
\* change their field and the board identifier is set, in the order of
\* parse_board
C27_Witness ==
    /\ BeforePasses
    /\ \A order \in OrdersLeft :
          \A outs \in {PassResults(board, lines, order)} :
             /\ outs[1].output_groups # board.output_groups
             /\ outs[2].sensors # board.sensors
             /\ outs[3].rc_input # board.rc_input
             /\ outs[4].uarts # board.uarts
             /\ outs[5].apj_board_id # None
             /\ RunPasses(CodeOrder, 1, board, lines, order,
                          WithPasses(1..Len(PassNames), 1, board, outs))

----------------------------------------------------------------------------
(* The batch driver *)

\* main's loop has gone through all_folders
BatchOver == batch.running /\ batch.todo = <<>> /\ batch.folder = <<>> /\ pc = "idle"

\* the folder names of main's results, in order
Results == [i \in 1..Len(batch.results) |-> batch.results[i].folder_name]

\* the folders whose parse_board call raised
Failed == {batch.errors[i][1] : i \in 1..Len(batch.errors)}

\* parse_board returned a record for the folder, not a bootloader's, with a
\* serial order
ReturnedAcceptable(name) ==
    /\ ~EndsWith(name, <<"-", "b", "l">>)
    /\ \E e \in Boards : e.folder = name /\ e.board[1].serial_order # <<>>

\* the accepted folders are those whose call returned a record with a serial
\* order, raised nothing and is not a bootloader's, and the results are the
\* records the calls returned; a call that raised is in errors with its message
AcceptRule ==
    /\ Results = SelectSeq(AllFolders, LAMBDA name : name \notin Failed /\ ReturnedAcceptable(name))
    /\ \A i \in 1..Len(batch.results) :
          \E e \in log : e.folder = Results[i] /\ e.board = Some(batch.results[i])
    /\ \A name \in Failed : \A e \in log : e.folder # name
    /\ \A i \in 1..Len(batch.errors) : batch.errors[i][2] \in {EmbeddedNull, ExceedsLimit}
    /\ \A i \in 1..Len(AllFolders) :
          AllFolders[i] \in Failed \/ \E e \in Boards : e.folder = AllFolders[i]

\* parse_board was called once for every folder, in the order of all_folders
EachFolderOnce == batch.calls = AllFolders

\* the files a call on path reads, includes followed `levels` deep
RECURSIVE Reached(_, _)
Reached(path, levels) ==
    IF ~Readable(path) \/ levels = 0 THEN {}
    ELSE {path} \cup UNION {Reached(IncludeTargets(path)[i], levels - 1) :
                               i \in 1..Len(IncludeTargets(path))}

\* the file has an include line on which Path.resolve() raises
HasRaisingInclude(path) ==
    \E i \in 1..Len(fs[path].lines) :
        LET l == Strip(fs[path].lines[i])
        IN  /\ ~IsBlankOrComment(l) /\ IsIncludeLine(l)
            /\ Len(Split1(l)) = 2 /\ HasNul(Strip(Split1(l)[2]))

\* parsed on its own, by a parser with an empty cache, the folder is accepted:
\* its includes stay within the depth limit and raise nothing, it is not a
\* bootloader's and its expanded text has a serial order
AcceptedAlone(name) ==
    /\ Shallow(TopFile(name))
    /\ \A f \in Reached(TopFile(name), MaxIncludeDepth + 1) : ~HasRaisingInclude(f)
    /\ ~EndsWith(name, <<"-", "b", "l">>)
    /\ FinalSerialOrder(Expand(TopFile(name), MaxIncludeDepth + 1)) # <<>>

\* the folders before it in the batch do not keep a folder from being accepted
LaterUnharmed ==
    \A i \in 1..Len(AllFolders) :
        AcceptedAlone(AllFolders[i]) => \E j \in 1..Len(Results) : Results[j] = AllFolders[i]

\* C23: when main's loop is through, the accepted folders are exactly those
\* whose parse returned a record, raised no exception, whose name does not end
\* in -bl and whose SERIAL_ORDER list is not empty; every folder of the batch
\* was attempted once; and no rejected or failing folder has kept a later
\* folder from being parsed and accepted.
C23_BatchAccepts == BatchOver => AcceptRule /\ EachFolderOnce /\ LaterUnharmed

====
